---- MODULE Spec2Model ----
(***************************************************************************)
(* Baltica: the Bedrock session pipeline.                                  *)
(*                                                                         *)
(* The module holds these state machines over one set of variables:       *)
(*   SpecCompressor  PacketCompressor.compress / decompress as functions   *)
(*   SpecClient      the Client session (src/client/client.ts)             *)
(*   SpecConnect     Client.connect() with its polling timers, fair        *)
(*   SpecServer      the server-side Player session (src/server/player.ts) *)
(*   SpecSession     a Client or a Player, each against any peer           *)
(*   SpecBridge      Bridge.processPacketCommon and BridgePlayer           *)
(*   SpecDispatch    handle / processPacket of the Client and the Players  *)
(*   SpecPair        Bridge.onConnect and Bridge.onLogin for one Player    *)
(*   SpecAuth        readAuth on the chain of a Login                      *)
(*   SpecEncryptor   startEncryption and the key material of one session   *)
(*   SpecCipher      encryptPacket / decryptPacket of two peers            *)
(*   SpecKeys        the key agreement of a Client and a Player            *)
(*   SpecRegistry    Server.connections for one address                    *)
(*   SpecWorker      WorkerClient and the Client in its worker thread      *)
(* Each specification leaves the variables of the others at their initial  *)
(* value.                                                                  *)
(***************************************************************************)
EXTENDS Integers, Sequences, FiniteSets, TLC

VARIABLES
    \* PacketCompressor as a function
    zPc, zIn, zOut, zBack,
    \* the Client session
    cRev, cPc, cStatus, cSessionReady, cCancelPastLogin, cOn, cComp, cEnc,
    cEncryptor, cStartGame, cTimer, cSent, cRak, cRakOn, cRakNotified,
    cCleanups, cInbound, cUserSends, cNetSetRecv, cS2CRecv, cSpawnRecv, cDecryptFailed,
    cAfterFail, cDisconnectReturned, cPeerBatches, cAuth,
    \* one Player session of the server
    pRev, pStatus, pOn, pComp, pEnc, pSent, pLoginPc, pLoginJwt, pInbound,
    pUserSends,
    \* one BridgePlayer of the bridge
    bRev, bPostStartGame, bQueue, bUserOn, bInternalOn, bCache, bRecv, bSent,
    bOffered,
    \* the packet dispatcher of one session
    dRev, dOn, dThrows, dBatch, dLog, dEscaped, dHandled,
    \* one bridge pair from Bridge.onConnect on
    uClients, uTarget, uLogin, uCacheOn, uCacheStatus, uRpcrOn, uUp, uDown, uRecv, uCcsDropped, uAlive, uFromD,
    \* one call of readAuth
    aRev, aChain, aPc, aIdx, aPubKey, aKey, aVerified, aData, aReturned,
    \* the encryptor and the key material of one session
    eRev, eStatus, eHandshakeOn, eEncryptors, eEncryptor, eEnabled, eKeys, eSendCtr, eRecvCtr, eCalls,
    \* two encryptors with one key, a sender and a receiver
    wSendCtr, wRecvCtr, wWire, wTried,
    \* key agreement of one Client and one Player
    kClient, kServer, kOffline, kStage, kLogin, kToken, kPlayerKey, kPlayerIv, kClientKey, kClientIv,
    \* the connection registry of a Server, for one address:port key
    rRev, rConns, rRegistry, rEvents, rKicked, rThrown,
    \* a WorkerClient on the main thread and the Client in its worker
    mPromise, mSettles, mEmitted, mToWorker, mToMain, mInner, mInnerEvents

zVars == <<zPc, zIn, zOut, zBack>>

cVars == <<cRev, cPc, cStatus, cSessionReady, cCancelPastLogin, cOn, cComp, cEnc,
           cEncryptor, cStartGame, cTimer, cSent, cRak, cRakOn, cRakNotified,
           cCleanups, cInbound, cUserSends, cNetSetRecv, cS2CRecv, cSpawnRecv, cDecryptFailed,
           cAfterFail, cDisconnectReturned, cPeerBatches, cAuth>>

pVars == <<pRev, pStatus, pOn, pComp, pEnc, pSent, pLoginPc, pLoginJwt, pInbound,
           pUserSends>>

bVars == <<bRev, bPostStartGame, bQueue, bUserOn, bInternalOn, bCache, bRecv, bSent,
           bOffered>>

dVars == <<dRev, dOn, dThrows, dBatch, dLog, dEscaped, dHandled>>

uVars == <<uClients, uTarget, uLogin, uCacheOn, uCacheStatus, uRpcrOn, uUp, uDown,
           uRecv, uCcsDropped, uAlive, uFromD>>

aVars == <<aRev, aChain, aPc, aIdx, aPubKey, aKey, aVerified, aData, aReturned>>

eVars == <<eRev, eStatus, eHandshakeOn, eEncryptors, eEncryptor, eEnabled, eKeys, eSendCtr, eRecvCtr, eCalls>>

wVars == <<wSendCtr, wRecvCtr, wWire, wTried>>

kVars == <<kClient, kServer, kOffline, kStage, kLogin, kToken, kPlayerKey, kPlayerIv, kClientKey, kClientIv>>

rVars == <<rRev, rConns, rRegistry, rEvents, rKicked, rThrown>>

mVars == <<mPromise, mSettles, mEmitted, mToWorker, mToMain, mInner, mInnerEvents>>

vars == <<zVars, cVars, pVars, bVars, dVars, uVars, aVars, eVars, wVars, kVars, rVars, mVars>>

\* what each component leaves alone
zOthers == <<cVars, pVars, bVars, dVars, uVars, aVars, eVars, wVars, kVars, rVars, mVars>>
cOthers == <<zVars, pVars, bVars, dVars, uVars, aVars, eVars, wVars, kVars, rVars, mVars>>
pOthers == <<zVars, cVars, bVars, dVars, uVars, aVars, eVars, wVars, kVars, rVars, mVars>>
bOthers == <<zVars, cVars, pVars, dVars, uVars, aVars, eVars, wVars, kVars, rVars, mVars>>
dOthers == <<zVars, cVars, pVars, bVars, uVars, aVars, eVars, wVars, kVars, rVars, mVars>>
uOthers == <<zVars, cVars, pVars, bVars, dVars, aVars, eVars, wVars, kVars, rVars, mVars>>
aOthers == <<zVars, cVars, pVars, bVars, dVars, uVars, eVars, wVars, kVars, rVars, mVars>>
eOthers == <<zVars, cVars, pVars, bVars, dVars, uVars, aVars, wVars, kVars, rVars, mVars>>
wOthers == <<zVars, cVars, pVars, bVars, dVars, uVars, aVars, eVars, kVars, rVars, mVars>>
kOthers == <<zVars, cVars, pVars, bVars, dVars, uVars, aVars, eVars, wVars, rVars, mVars>>
rOthers == <<zVars, cVars, pVars, bVars, dVars, uVars, aVars, eVars, wVars, kVars, mVars>>
mOthers == <<zVars, cVars, pVars, bVars, dVars, uVars, aVars, eVars, wVars, kVars, rVars>>

(***************************************************************************)
(* Bounds of the model.                                                    *)
(***************************************************************************)
\* longest packet body (bytes) handed to compress
MaxBody == 3
\* largest negotiated compression threshold tried
MaxThreshold == 4
\* inbound batches one client session is fed
MaxClientInbound == 3
\* send()/queue() calls the user of a client makes
MaxUserSends == 1
\* teardowns of one client the model follows
MaxDisconnects == 2
\* inbound batches one player session is fed
MaxPlayerInbound == 4
\* send()/queue() calls the server's application makes on one player
MaxPlayerSends == 2
\* packets one bridge pair is fed, both directions together
MaxBridgeInbound == 3
\* inbound batches one dispatcher is fed
MaxBatches == 2
\* sub-packets of one inbound batch
MaxBatchLen == 2
\* packets one bridge pair receives while it logs in, both sides together
MaxPairInbound == 4
\* tokens of a login chain
MaxChain == 3
\* batches the server sends while one connect() runs
MaxConnectInbound == 5
\* calls of startEncryption from outside the handshake handler
MaxStartCalls == 2
\* batches one encryptor seals, and opens
MaxCounter == 2
\* batches the sender seals
MaxMessages == 2
\* batches the receiver is handed, replayed and reordered ones included
MaxOpens == 3
\* private keys a session may draw
MaxPrivate == 6
\* RakNet connections from the one address
MaxConnections == 3
\* events the Client in the worker emits besides those of connect()
MaxInnerEvents == 3

(***************************************************************************)
(* Wire constants.                                                         *)
(***************************************************************************)
\* the RakNet game-packet leader byte, 0xfe
Leader == 254
\* CompressionMethod.Zlib
Zlib == 0
\* CompressionMethod.Snappy
Snappy == 1
\* CompressionMethod.NotPresent: the sentinel getMethod returns for a byte
\* that is no method; it is a member of the enum itself
NotPresent == 2
\* CompressionMethod.None, 0xff
None == 255
\* a raw-deflate stream is opaque: ZMark followed by the bytes it inflates to
ZMark == 256
\* a ciphertext is opaque: CMark, the counter it was sealed under, the plaintext
CMark == 257

CompressionMethod == {Zlib, Snappy, NotPresent, None}

Ok(b) == [ok |-> TRUE, buf |-> b]
Throw == [ok |-> FALSE, buf |-> <<>>]

(***************************************************************************)
(* Framer: unsigned-varint length prefixes.                                *)
(***************************************************************************)
RECURSIVE VarInt(_)
VarInt(n) ==
    IF n < 128 THEN <<n>> ELSE <<(n % 128) + 128>> \o VarInt(n \div 128)

Frame(buffer) == VarInt(Len(buffer)) \o buffer

\* ReadVarInt(buf, i): [ok, val, next] reading at index i
RECURSIVE ReadVarInt(_, _)
ReadVarInt(buf, i) ==
    IF i > Len(buf) THEN [ok |-> FALSE, val |-> 0, next |-> i]
    ELSE IF buf[i] \notin 0..255 THEN [ok |-> FALSE, val |-> 0, next |-> i]
    ELSE IF buf[i] < 128 THEN [ok |-> TRUE, val |-> buf[i], next |-> i + 1]
    ELSE LET r == ReadVarInt(buf, i + 1)
         IN  [ok |-> r.ok, val |-> (buf[i] - 128) + 128 * r.val, next |-> r.next]

\* Unframe(buf, i): [ok, pkts]; a length that exceeds what is left fails
RECURSIVE UnframeFrom(_, _)
UnframeFrom(buf, i) ==
    IF i > Len(buf) THEN [ok |-> TRUE, pkts |-> <<>>]
    ELSE LET r == ReadVarInt(buf, i)
         IN  IF ~r.ok \/ r.next + r.val - 1 > Len(buf)
             THEN [ok |-> FALSE, pkts |-> <<>>]
             ELSE LET rest == UnframeFrom(buf, r.next + r.val)
                  IN  [ok |-> rest.ok,
                       pkts |-> IF rest.ok
                                THEN <<SubSeq(buf, r.next, r.next + r.val - 1)>> \o rest.pkts
                                ELSE <<>>]

Unframe(buf) ==
    IF buf = <<>> THEN [ok |-> FALSE, pkts |-> <<>>] ELSE UnframeFrom(buf, 1)

(***************************************************************************)
(* PacketEncryptor (its file is not part of the sources).                  *)
(***************************************************************************)
EncryptPacket(framed, ctr) == Ok(<<Leader, CMark, ctr>> \o framed)

DecryptPacket_NoCounter(packet, ctr) ==
    IF Len(packet) >= 2 /\ packet[1] = CMark
    THEN Ok(SubSeq(packet, 3, Len(packet)))
    ELSE Throw

DecryptPacket(packet, ctr) ==
    IF Len(packet) >= 2 /\ packet[1] = CMark /\ packet[2] = ctr
    THEN Ok(SubSeq(packet, 3, Len(packet)))
    ELSE Throw

(***************************************************************************)
(* PacketCompressor.                                                       *)
(***************************************************************************)
GetMethod(header) ==
    IF header \in CompressionMethod THEN header ELSE NotPresent

Deflate(buffer, method) ==
    CASE method = Zlib -> Ok(<<ZMark>> \o buffer)
      [] method = Snappy -> Throw
      [] OTHER -> Ok(buffer)

Inflate(buffer, method) ==
    CASE method = Zlib ->
            IF buffer # <<>> /\ buffer[1] = ZMark THEN Ok(Tail(buffer)) ELSE Throw
      [] method = Snappy -> Throw
      [] OTHER -> Ok(buffer)

\* s: the session the compressor belongs to
\*    [enc, comp, thr, method, sendCtr, recvCtr]
ShouldCompress_AtThreshold(framed, s) == Len(framed) >= s.thr /\ s.comp

ShouldCompress(framed, s) == Len(framed) > s.thr /\ s.comp

Compress(buffer, s) ==
    LET framed == Frame(buffer)
    IN  IF s.enc THEN EncryptPacket(framed, s.sendCtr)
        ELSE IF ShouldCompress(framed, s)
             THEN LET d == Deflate(framed, s.method)
                  IN  IF d.ok THEN Ok(<<Leader, s.method>> \o d.buf) ELSE Throw
             ELSE IF s.comp THEN Ok(<<Leader, None>> \o framed)
             ELSE Ok(<<Leader>> \o framed)

Decompress(buffer, s) ==
    IF buffer = <<>> \/ buffer[1] # Leader THEN [ok |-> FALSE, pkts |-> <<>>]
    ELSE LET p1 == IF s.enc THEN DecryptPacket(Tail(buffer), s.recvCtr)
                   ELSE Ok(Tail(buffer))
         IN  IF ~p1.ok THEN [ok |-> FALSE, pkts |-> <<>>]
             ELSE LET method == IF p1.buf = <<>> THEN NotPresent
                                ELSE GetMethod(p1.buf[1])
                      p2 == IF method # NotPresent THEN Tail(p1.buf) ELSE p1.buf
                      inflated == Inflate(p2, method)
                  IN  IF ~inflated.ok THEN [ok |-> FALSE, pkts |-> <<>>]
                      ELSE Unframe(inflated.buf)

(***************************************************************************)
(* Each specification runs one component; the others stay as they are      *)
(* here.                                                                   *)
(***************************************************************************)
NoResult == [ok |-> FALSE, buf |-> <<>>]
NoPackets == [ok |-> FALSE, pkts |-> <<>>]

ZIdle ==
    /\ zPc = "off"
    /\ zIn = [s |-> [enc |-> FALSE, comp |-> FALSE, thr |-> 0, method |-> Zlib,
                     sendCtr |-> 0, recvCtr |-> 0],
              body |-> <<4>>]
    /\ zOut = NoResult
    /\ zBack = NoPackets

CIdle ==
    /\ cRev = "client.ts"
    /\ cPc = "off"
    /\ cStatus = "Disconnected"
    /\ cSessionReady = FALSE
    /\ cCancelPastLogin = FALSE
    /\ cOn = {}
    /\ cComp = FALSE
    /\ cEnc = FALSE
    /\ cEncryptor = "none"
    /\ cStartGame = FALSE
    /\ cTimer = FALSE
    /\ cSent = <<>>
    /\ cRak = "idle"
    /\ cRakOn = {}
    /\ cRakNotified = 0
    /\ cCleanups = 0
    /\ cInbound = 0
    /\ cUserSends = 0
    /\ cNetSetRecv = 0
    /\ cS2CRecv = 0
    /\ cSpawnRecv = FALSE
    /\ cDecryptFailed = FALSE
    /\ cAfterFail = FALSE
    /\ cDisconnectReturned = FALSE
    /\ cPeerBatches = 0
    /\ cAuth = "pending"

PIdle ==
    /\ pRev = "player.ts"
    /\ pStatus = "off"
    /\ pOn = {}
    /\ pComp = FALSE
    /\ pEnc = FALSE
    /\ pSent = <<>>
    /\ pLoginPc = "idle"
    /\ pLoginJwt = "-"
    /\ pInbound = 0
    /\ pUserSends = 0

BIdle ==
    /\ bRev = "bridge.ts"
    /\ bPostStartGame = FALSE
    /\ bQueue = <<>>
    /\ bUserOn = {}
    /\ bInternalOn = {}
    /\ bCache = {}
    /\ bRecv = <<>>
    /\ bSent = <<>>
    /\ bOffered = <<>>

DIdle ==
    /\ dRev = "client.ts"
    /\ dOn = {}
    /\ dThrows = {}
    /\ dBatch = <<>>
    /\ dLog = <<>>
    /\ dEscaped = FALSE
    /\ dHandled = 0

UIdle ==
    /\ uClients = <<>>
    /\ uTarget = 0
    /\ uLogin = "none"
    /\ uCacheOn = FALSE
    /\ uCacheStatus = "unset"
    /\ uRpcrOn = 0
    /\ uUp = <<>>
    /\ uDown = <<>>
    /\ uRecv = 0
    /\ uCcsDropped = 0
    /\ uAlive = TRUE
    /\ uFromD = <<>>

AIdle ==
    /\ aRev = "jose"
    /\ aChain = <<>>
    /\ aPc = "off"
    /\ aIdx = 0
    /\ aPubKey = "-"
    /\ aKey = "null"
    /\ aVerified = FALSE
    /\ aData = "none"
    /\ aReturned = [key |-> "null", data |-> "none"]

EIdle ==
    /\ eRev = "client.ts"
    /\ eStatus = "off"
    /\ eHandshakeOn = FALSE
    /\ eEncryptors = 0
    /\ eEncryptor = "none"
    /\ eEnabled = FALSE
    /\ eKeys = {}
    /\ eSendCtr = 0
    /\ eRecvCtr = 0
    /\ eCalls = 0

WIdle ==
    /\ wSendCtr = 0
    /\ wRecvCtr = 0
    /\ wWire = <<>>
    /\ wTried = <<>>

KIdle ==
    /\ kClient = 0
    /\ kServer = 0
    /\ kOffline = FALSE
    /\ kStage = "off"
    /\ kLogin = <<>>
    /\ kToken = <<>>
    /\ kPlayerKey = <<>>
    /\ kPlayerIv = <<>>
    /\ kClientKey = <<>>
    /\ kClientIv = <<>>

RIdle ==
    /\ rRev = "off"
    /\ rConns = <<>>
    /\ rRegistry = 0
    /\ rEvents = <<>>
    /\ rKicked = {}
    /\ rThrown = 0

MIdle ==
    /\ mPromise = "off"
    /\ mSettles = 0
    /\ mEmitted = <<>>
    /\ mToWorker = <<>>
    /\ mToMain = <<>>
    /\ mInner = "none"
    /\ mInnerEvents = 0

(***************************************************************************)
(* Client: one session of the client, from construction to disconnect.     *)
(* cRev names the revision of the class: the one in src/client/client.ts   *)
(* or the older one whose disconnect() has no status guard.                *)
(***************************************************************************)
ClientRevisions == {"client.ts", "part_003"}

\* the listeners setupPacketListeners registers
PacketListeners ==
    {"NetworkSettingsPacket", "ServerToClientHandshakePacket",
     "ResourcePacksInfoPacket", "PlayStatusPacket"}

\* the listeners waitForConnection registers
ConnectionListeners == {"StartGamePacket", "SetLocalPlayerAsInitializedPacket"}

\* listeners registered with once(): removed when they fire
OnceListeners_NetworkSettingsOn ==
    {"session", "ServerToClientHandshakePacket", "ResourcePacksInfoPacket",
     "StartGamePacket", "SetLocalPlayerAsInitializedPacket"}

OnceListeners ==
    {"session", "NetworkSettingsPacket", "ServerToClientHandshakePacket",
     "ResourcePacksInfoPacket", "StartGamePacket",
     "SetLocalPlayerAsInitializedPacket"}

\* the order of the two effects of handleServerHandshake
HandleServerHandshake_SendFirst == <<"send", "startEncryption">>

HandleServerHandshake == <<"startEncryption", "send">>

\* what the server may put in one inbound batch: a packet and how it differs
InboundPackets ==
    { [name |-> "NetworkSettingsPacket", arg |-> "-"],
      [name |-> "ServerToClientHandshakePacket", arg |-> "token"],
      [name |-> "ServerToClientHandshakePacket", arg |-> "malformed"],
      [name |-> "ResourcePacksInfoPacket", arg |-> "-"],
      [name |-> "PlayStatusPacket", arg |-> "LoginSuccess"],
      [name |-> "PlayStatusPacket", arg |-> "PlayerSpawn"],
      [name |-> "StartGamePacket", arg |-> "-"],
      [name |-> "TextPacket", arg |-> "-"],
      [name |-> "Unknown", arg |-> "-"] }

\* a batch is plaintext, a ciphertext sealed under the session key and the
\* next counter, or anything else (tampered, replayed, wrong key)
Seals == {"plain", "sealed", "tampered"}

\* decompress on the client: with encryption on the batch must decrypt and
\* pass the integrity check, with encryption off it must be plaintext
BatchDecompresses(seal, enc) == IF enc THEN seal = "sealed" ELSE seal = "plain"

\* sendPacket: nothing leaves a Disconnected client; the frame carries the
\* flags compress saw
SendPacket(sent, pk, status, enc, comp) ==
    IF status = "Disconnected" THEN sent
    ELSE Append(sent, [pk |-> pk, enc |-> enc, comp |-> comp])

\* the constructor
CInit ==
    /\ ZIdle
    /\ PIdle
    /\ BIdle
    /\ DIdle
    /\ UIdle
    /\ AIdle
    /\ EIdle
    /\ WIdle
    /\ KIdle
    /\ RIdle
    /\ MIdle
    /\ cRev \in ClientRevisions
    /\ cPc = "idle"
    /\ cStatus = "Disconnected"
    /\ cSessionReady = FALSE
    /\ cCancelPastLogin \in BOOLEAN
    /\ cOn = {"session"}
    /\ cComp = FALSE
    /\ cEnc = FALSE
    /\ cEncryptor = "none"
    /\ cStartGame = FALSE
    /\ cTimer = FALSE
    /\ cSent = <<>>
    /\ cRak = "idle"
    /\ cRakOn = {}
    /\ cRakNotified = 0
    /\ cCleanups = 0
    /\ cInbound = 0
    /\ cUserSends = 0
    /\ cNetSetRecv = 0
    /\ cS2CRecv = 0
    /\ cSpawnRecv = FALSE
    /\ cDecryptFailed = FALSE
    /\ cAfterFail = FALSE
    /\ cDisconnectReturned = FALSE
    /\ cPeerBatches = MaxClientInbound
    /\ cAuth = "pending"

\* the authentication emits "session"
SessionEvent ==
    /\ cPc # "off"
    /\ cAuth = "pending"
    /\ "session" \in cOn
    /\ cAuth' = "session"
    /\ cSessionReady' = TRUE
    /\ cOn' = cOn \ {"session"}
    /\ UNCHANGED <<cOthers, cPeerBatches, cRev, cPc, cStatus, cCancelPastLogin, cComp, cEnc,
                   cEncryptor, cStartGame, cTimer, cSent, cRak, cRakOn,
                   cRakNotified, cCleanups, cInbound, cUserSends, cNetSetRecv,
                   cS2CRecv, cSpawnRecv, cDecryptFailed, cAfterFail, cDisconnectReturned>>

\* connect() is called and starts waiting for the session
Connect ==
    /\ cPc = "idle"
    /\ cPc' = "waitSession"
    /\ UNCHANGED <<cOthers, cPeerBatches, cAuth, cRev, cStatus, cSessionReady, cCancelPastLogin, cOn,
                   cComp, cEnc, cEncryptor, cStartGame, cTimer, cSent, cRak,
                   cRakOn, cRakNotified, cCleanups, cInbound, cUserSends,
                   cNetSetRecv, cS2CRecv, cSpawnRecv, cDecryptFailed, cAfterFail, cDisconnectReturned>>

\* connect() past waitForSessionReady: status, listeners, raknet.connect()
SetupEventListeners ==
    /\ cPc = "waitSession"
    /\ cSessionReady
    /\ cStatus' = "Connecting"
    /\ cRakOn' = cRakOn \cup {"connect"}
                   \cup (IF cRev = "client.ts" THEN {"close"} ELSE {})
    /\ cOn' = cOn \cup PacketListeners
    /\ cRak' = IF cRak = "idle" THEN "connecting" ELSE cRak
    /\ cPc' = "awaitRaknet"
    /\ UNCHANGED <<cOthers, cPeerBatches, cAuth, cRev, cSessionReady, cCancelPastLogin, cComp, cEnc,
                   cEncryptor, cStartGame, cTimer, cSent, cRakNotified,
                   cCleanups, cInbound, cUserSends, cNetSetRecv, cS2CRecv, cSpawnRecv,
                   cDecryptFailed, cAfterFail, cDisconnectReturned>>

\* RakNet connects: its "connect" event starts the network-settings timer,
\* and connect() resumes into waitForConnection
RaknetConnect ==
    /\ cRak = "connecting"
    /\ cRak' = "connected"
    /\ cTimer' = (cTimer \/ "connect" \in cRakOn)
    /\ IF cPc = "awaitRaknet"
       THEN /\ cRakOn' = (cRakOn \ {"connect"}) \cup {"encapsulated"}
            /\ cOn' = cOn \cup ConnectionListeners
            /\ cPc' = "waitConnection"
       ELSE /\ cRakOn' = cRakOn \ {"connect"}
            /\ UNCHANGED <<cOn, cPc>>
    /\ UNCHANGED <<cOthers, cPeerBatches, cAuth, cRev, cStatus, cSessionReady, cCancelPastLogin, cComp,
                   cEnc, cEncryptor, cStartGame, cSent, cRakNotified, cCleanups,
                   cInbound, cUserSends, cNetSetRecv, cS2CRecv, cSpawnRecv, cDecryptFailed,
                   cAfterFail, cDisconnectReturned>>

\* raknet.connect() rejects: connect() rejects with it
RaknetConnectFails ==
    /\ cRak = "connecting"
    /\ cRak' = "failed"
    /\ cPc' = IF cPc = "awaitRaknet" THEN "rejected" ELSE cPc
    /\ UNCHANGED <<cOthers, cPeerBatches, cAuth, cRev, cStatus, cSessionReady, cCancelPastLogin, cOn,
                   cComp, cEnc, cEncryptor, cStartGame, cTimer, cSent, cRakOn,
                   cRakNotified, cCleanups, cInbound, cUserSends, cNetSetRecv,
                   cS2CRecv, cSpawnRecv, cDecryptFailed, cAfterFail, cDisconnectReturned>>

\* the timer of handleRaknetConnect fires
HandleRaknetConnect ==
    /\ cTimer
    /\ cSessionReady
    /\ cSent' = SendPacket(cSent, "RequestNetworkSettingsPacket", cStatus, cEnc, cComp)
    /\ cTimer' = FALSE
    /\ UNCHANGED <<cOthers, cPeerBatches, cAuth, cRev, cPc, cStatus, cSessionReady, cCancelPastLogin,
                   cOn, cComp, cEnc, cEncryptor, cStartGame, cRak, cRakOn,
                   cRakNotified, cCleanups, cInbound, cUserSends, cNetSetRecv,
                   cS2CRecv, cSpawnRecv, cDecryptFailed, cAfterFail, cDisconnectReturned>>

\* the interval of waitForConnection fires and resolves connect()
WaitForConnection ==
    /\ cPc = "waitConnection"
    /\ cStatus = "Connected"
    /\ cStartGame
    /\ cSessionReady
    /\ cPc' = "resolved"
    /\ UNCHANGED <<cOthers, cPeerBatches, cAuth, cRev, cStatus, cSessionReady, cCancelPastLogin, cOn,
                   cComp, cEnc, cEncryptor, cStartGame, cTimer, cSent, cRak,
                   cRakOn, cRakNotified, cCleanups, cInbound, cUserSends,
                   cNetSetRecv, cS2CRecv, cSpawnRecv, cDecryptFailed, cAfterFail, cDisconnectReturned>>

\* the user of the client calls send() or queue()
UserSend ==
    /\ cPc # "off"
    /\ cUserSends < MaxUserSends
    /\ cUserSends' = cUserSends + 1
    /\ cSent' = SendPacket(cSent, "TextPacket", cStatus, cEnc, cComp)
    /\ UNCHANGED <<cOthers, cPeerBatches, cAuth, cRev, cPc, cStatus, cSessionReady, cCancelPastLogin,
                   cOn, cComp, cEnc, cEncryptor, cStartGame, cTimer, cRak,
                   cRakOn, cRakNotified, cCleanups, cInbound, cNetSetRecv,
                   cS2CRecv, cSpawnRecv, cDecryptFailed, cAfterFail, cDisconnectReturned>>

\* emit: the listener set after the listeners of name have run
Fired(on, name) == IF name \in OnceListeners THEN on \ {name} ELSE on

\* handleEncapsulated with a batch that decompress rejects: the error is
\* caught and logged
HandleEncapsulatedThrows ==
    /\ cRak = "connected"
    /\ "encapsulated" \in cRakOn
    /\ cInbound < cPeerBatches
    /\ \E seal \in Seals : ~BatchDecompresses(seal, cEnc)
    /\ cInbound' = cInbound + 1
    /\ cDecryptFailed' = (cDecryptFailed \/ cEnc)
    /\ UNCHANGED <<cOthers, cPeerBatches, cAuth, cRev, cPc, cStatus, cSessionReady, cCancelPastLogin,
                   cOn, cComp, cEnc, cEncryptor, cStartGame, cTimer, cSent,
                   cRak, cRakOn, cRakNotified, cCleanups, cUserSends,
                   cNetSetRecv, cS2CRecv, cSpawnRecv, cAfterFail, cDisconnectReturned>>

\* handleEncapsulated with a batch that decompresses: the part common to
\* every packet
Decompressed ==
    /\ cRak = "connected"
    /\ "encapsulated" \in cRakOn
    /\ cInbound < cPeerBatches
    /\ \E seal \in Seals : BatchDecompresses(seal, cEnc)
    /\ cInbound' = cInbound + 1
    /\ cAfterFail' = (cAfterFail \/ cDecryptFailed)
    /\ UNCHANGED <<cOthers, cPeerBatches, cAuth, cRev, cPc, cSessionReady, cCancelPastLogin, cTimer,
                   cRak, cRakOn, cRakNotified, cCleanups, cUserSends,
                   cDecryptFailed, cDisconnectReturned>>

\* handleNetworkSettingsPacket sending the Login before it sets the flag
HandleNetworkSettingsPacket_SendFirst(sent) ==
    SendPacket(sent, "LoginPacket", cStatus, cEnc, cComp)

\* handleNetworkSettingsPacket: _compressionEnabled = true, then send(Login)
HandleNetworkSettingsPacket(sent) ==
    SendPacket(sent, "LoginPacket", cStatus, cEnc, TRUE)

ProcessNetworkSettings ==
    /\ Decompressed
    /\ cNetSetRecv' = cNetSetRecv + 1
    /\ IF "NetworkSettingsPacket" \in cOn
       THEN /\ cOn' = Fired(cOn, "NetworkSettingsPacket")
            /\ cComp' = TRUE
            /\ cSent' = HandleNetworkSettingsPacket(cSent)
       ELSE UNCHANGED <<cOn, cComp, cSent>>
    /\ UNCHANGED <<cStatus, cEnc, cEncryptor, cStartGame, cS2CRecv, cSpawnRecv>>

ProcessServerHandshake ==
    /\ Decompressed
    /\ cS2CRecv' = cS2CRecv + 1
    /\ \E p \in InboundPackets :
         /\ p.name = "ServerToClientHandshakePacket"
         /\ IF p.name \notin cOn
            THEN UNCHANGED <<cOn, cEnc, cEncryptor, cSent>>
            ELSE /\ cOn' = Fired(cOn, p.name)
                 /\ IF p.arg = "malformed"
                    THEN UNCHANGED <<cEnc, cEncryptor, cSent>>
                    ELSE /\ cEnc' = TRUE
                         /\ cEncryptor' = "live"
                         /\ cSent' = SendPacket(cSent, "ClientToServerHandshakePacket",
                                        cStatus,
                                        IF HandleServerHandshake[1] = "startEncryption"
                                        THEN TRUE ELSE cEnc,
                                        cComp)
    /\ UNCHANGED <<cStatus, cComp, cStartGame, cNetSetRecv, cSpawnRecv>>

ProcessResourcePacksInfo ==
    /\ Decompressed
    /\ IF "ResourcePacksInfoPacket" \in cOn
       THEN /\ cOn' = Fired(cOn, "ResourcePacksInfoPacket")
            /\ cSent' = IF cCancelPastLogin THEN cSent
                        ELSE SendPacket(
                               SendPacket(cSent, "ResourcePackClientResponsePacket",
                                          cStatus, cEnc, cComp),
                               "ClientCacheStatusPacket", cStatus, cEnc, cComp)
       ELSE UNCHANGED <<cOn, cSent>>
    /\ UNCHANGED <<cStatus, cComp, cEnc, cEncryptor, cStartGame, cNetSetRecv,
                   cS2CRecv, cSpawnRecv>>

\* completePlayerSpawn without send(init)
CompletePlayerSpawn_NoInit(sent) ==
    IF cRev = "client.ts"
    THEN SendPacket(sent, "ServerboundLoadingScreenPacket", cStatus, cEnc, cComp)
    ELSE sent

\* completePlayerSpawn: the revisions differ in what they send
CompletePlayerSpawn(sent) ==
    LET init == SendPacket(sent, "SetLocalPlayerAsInitializedPacket",
                           cStatus, cEnc, cComp)
    IN  IF cRev = "client.ts"
        THEN SendPacket(init, "ServerboundLoadingScreenPacket", cStatus, cEnc, cComp)
        ELSE init

ProcessPlayStatus ==
    /\ Decompressed
    /\ \E p \in InboundPackets :
         /\ p.name = "PlayStatusPacket"
         /\ IF p.name \in cOn /\ p.arg = "PlayerSpawn" /\ ~cCancelPastLogin
            THEN /\ cSent' = CompletePlayerSpawn(cSent)
                 /\ IF "SetLocalPlayerAsInitializedPacket" \in cOn
                    THEN /\ cStatus' = "Connected"
                         /\ cOn' = Fired(cOn, "SetLocalPlayerAsInitializedPacket")
                    ELSE UNCHANGED <<cStatus, cOn>>
            ELSE UNCHANGED <<cSent, cStatus, cOn>>
         /\ cSpawnRecv' = (cSpawnRecv \/ (p.name \in cOn /\ p.arg = "PlayerSpawn"))
    /\ UNCHANGED <<cComp, cEnc, cEncryptor, cStartGame, cNetSetRecv, cS2CRecv>>

\* handleStartGamePacket without the cancelPastLogin test
HandleStartGamePacket_NoGuard(sent, cancelPastLogin) ==
    SendPacket(sent, "RequestChunkRadiusPacket", cStatus, cEnc, cComp)

\* handleStartGamePacket: what is handed to RakNet after it
HandleStartGamePacket(sent, cancelPastLogin) ==
    IF cancelPastLogin THEN sent
    ELSE SendPacket(sent, "RequestChunkRadiusPacket", cStatus, cEnc, cComp)

ProcessStartGame ==
    /\ Decompressed
    /\ IF "StartGamePacket" \in cOn
       THEN /\ cOn' = Fired(cOn, "StartGamePacket")
            /\ cStartGame' = TRUE
            /\ cSent' = HandleStartGamePacket(cSent, cCancelPastLogin)
       ELSE UNCHANGED <<cOn, cStartGame, cSent>>
    /\ UNCHANGED <<cStatus, cComp, cEnc, cEncryptor, cNetSetRecv, cS2CRecv, cSpawnRecv>>

\* a packet nobody listens to, or an unknown id
ProcessUnhandled ==
    /\ Decompressed
    /\ \E p \in InboundPackets : p.name \in {"TextPacket", "Unknown"}
    /\ UNCHANGED <<cStatus, cOn, cComp, cEnc, cEncryptor, cStartGame, cSent,
                   cNetSetRecv, cS2CRecv, cSpawnRecv>>

\* disconnect() and cleanup() of src/client/client.ts
DisconnectGuarded ==
    IF cStatus = "Disconnected"
    THEN UNCHANGED <<cStatus, cOn, cRak, cRakOn, cRakNotified, cEncryptor, cEnc,
                     cCleanups>>
    ELSE /\ cStatus' = "Disconnected"
         /\ cOn' = {}
         /\ cRakNotified' = cRakNotified + 1
         /\ cRak' = "closed"
         /\ cEncryptor' = IF cEncryptor = "none" THEN "none" ELSE "destroyed"
         /\ cEnc' = IF cEncryptor = "none" THEN cEnc ELSE FALSE
         /\ cCleanups' = cCleanups + 1
         /\ UNCHANGED cRakOn

\* disconnect() of the older revision
DisconnectUnguarded ==
    /\ cRakNotified' = cRakNotified + 1
    /\ cStatus' = "Disconnected"
    /\ cOn' = {}
    /\ cRak' = "closed"
    /\ cRakOn' = {}
    /\ cCleanups' = cCleanups + 1
    /\ UNCHANGED <<cEncryptor, cEnc>>

\* the user of the client calls disconnect()
Disconnect ==
    /\ cPc # "off"
    /\ cCleanups < MaxDisconnects
    /\ IF cRev = "client.ts" THEN DisconnectGuarded ELSE DisconnectUnguarded
    /\ cDisconnectReturned' = TRUE
    /\ UNCHANGED <<cOthers, cPeerBatches, cAuth, cRev, cPc, cSessionReady, cCancelPastLogin, cComp,
                   cStartGame, cTimer, cSent, cInbound, cUserSends, cNetSetRecv,
                   cS2CRecv, cSpawnRecv, cDecryptFailed, cAfterFail>>

\* RakNet emits "close": the listener of setupConnectionListeners runs
RaknetClose ==
    /\ cRak \in {"connecting", "connected"}
    /\ IF "close" \in cRakOn
       THEN DisconnectGuarded
       ELSE /\ cRak' = "closed"
            /\ UNCHANGED <<cStatus, cOn, cRakOn, cRakNotified, cEncryptor, cEnc,
                           cCleanups>>
    /\ cDisconnectReturned' = (cDisconnectReturned \/ "close" \in cRakOn)
    /\ UNCHANGED <<cOthers, cPeerBatches, cAuth, cRev, cPc, cSessionReady, cCancelPastLogin, cComp,
                   cStartGame, cTimer, cSent, cInbound, cUserSends, cNetSetRecv,
                   cS2CRecv, cSpawnRecv, cDecryptFailed, cAfterFail>>

CNext ==
    \/ SessionEvent
    \/ Connect
    \/ SetupEventListeners
    \/ RaknetConnect
    \/ RaknetConnectFails
    \/ HandleRaknetConnect
    \/ WaitForConnection
    \/ UserSend
    \/ HandleEncapsulatedThrows
    \/ ProcessNetworkSettings
    \/ ProcessServerHandshake
    \/ ProcessResourcePacksInfo
    \/ ProcessPlayStatus
    \/ ProcessStartGame
    \/ ProcessUnhandled
    \/ Disconnect
    \/ RaknetClose

SpecClient == CInit /\ [][CNext]_vars

\* createOfflineSession or authenticate throws: the promise, which
\* initializeSession drops, rejects and "session" is never emitted
SessionFails ==
    /\ cPc # "off"
    /\ cAuth = "pending"
    /\ cAuth' = "threw"
    /\ UNCHANGED <<cOthers, cPeerBatches, cRev, cPc, cStatus, cSessionReady,
                   cCancelPastLogin, cOn, cComp, cEnc, cEncryptor, cStartGame,
                   cTimer, cSent, cRak, cRakOn, cRakNotified, cCleanups,
                   cInbound, cUserSends, cNetSetRecv, cS2CRecv, cSpawnRecv,
                   cDecryptFailed, cAfterFail, cDisconnectReturned>>

\* connect() from the constructor to its settlement, against a server that
\* sends the packets of the login
CInitConnect ==
    /\ ZIdle
    /\ PIdle
    /\ BIdle
    /\ DIdle
    /\ UIdle
    /\ AIdle
    /\ EIdle
    /\ WIdle
    /\ KIdle
    /\ RIdle
    /\ MIdle
    /\ cRev \in ClientRevisions
    /\ cPc = "idle"
    /\ cStatus = "Disconnected"
    /\ cSessionReady = FALSE
    /\ cCancelPastLogin \in BOOLEAN
    /\ cOn = {"session"}
    /\ cComp = FALSE
    /\ cEnc = FALSE
    /\ cEncryptor = "none"
    /\ cStartGame = FALSE
    /\ cTimer = FALSE
    /\ cSent = <<>>
    /\ cRak = "idle"
    /\ cRakOn = {}
    /\ cRakNotified = 0
    /\ cCleanups = 0
    /\ cInbound = 0
    /\ cUserSends = 0
    /\ cNetSetRecv = 0
    /\ cS2CRecv = 0
    /\ cSpawnRecv = FALSE
    /\ cDecryptFailed = FALSE
    /\ cAfterFail = FALSE
    /\ cDisconnectReturned = FALSE
    /\ cPeerBatches = MaxConnectInbound
    /\ cAuth = "pending"

CNextConnect ==
    \/ SessionEvent
    \/ SessionFails
    \/ Connect
    \/ SetupEventListeners
    \/ RaknetConnect
    \/ HandleRaknetConnect
    \/ WaitForConnection
    \/ ProcessNetworkSettings
    \/ ProcessServerHandshake
    \/ ProcessResourcePacksInfo
    \/ ProcessPlayStatus
    \/ ProcessStartGame
    \/ Disconnect
    \/ RaknetClose

\* the timers that poll (waitForSessionReady, handleRaknetConnect,
\* waitForConnection) keep firing
SpecConnect ==
    /\ CInitConnect
    /\ [][CNextConnect]_vars
    /\ WF_vars(SetupEventListeners)
    /\ WF_vars(HandleRaknetConnect)
    /\ WF_vars(WaitForConnection)

(***************************************************************************)
(* Player: one session of the server.  pRev names the revision of the      *)
(* class: the one in src/server/player.ts, whose LoginPacket handler is    *)
(* synchronous, or the one with a status whose handler awaits three times. *)
(***************************************************************************)
PlayerRevisions == {"player.ts", "part_012"}

\* the listeners prepare() registers, all with once()
PlayerListeners(rev) ==
    {"RequestNetworkSettingsPacket", "LoginPacket", "ClientToServerHandshakePacket"}
        \cup (IF rev = "part_012" THEN {"SetLocalPlayerAsInitializedPacket"} ELSE {})

\* the order of the two effects at the end of the LoginPacket handler
PlayerLoginHandler_EncryptFirst == <<"startEncryption", "send">>

PlayerLoginHandler == <<"send", "startEncryption">>

\* what decodeLoginJWT makes of the tokens of a LoginPacket
LoginTokens == {"valid", "invalid"}

\* sendPacket: the revision with a status sends nothing while Disconnected
PlayerSendPacket(sent, pk, rev, status, enc, comp) ==
    IF rev = "part_012" /\ status = "Disconnected" THEN sent
    ELSE Append(sent, [pk |-> pk, enc |-> enc, comp |-> comp])

pHandshakes ==
    { i \in DOMAIN pSent : pSent[i].pk = "ServerToClientHandshakePacket" }

\* the constructor
PInit ==
    /\ ZIdle
    /\ CIdle
    /\ BIdle
    /\ DIdle
    /\ UIdle
    /\ AIdle
    /\ EIdle
    /\ WIdle
    /\ KIdle
    /\ RIdle
    /\ MIdle
    /\ pRev \in PlayerRevisions
    /\ pStatus = IF pRev = "part_012" THEN "Disconnected" ELSE "none"
    /\ pOn = PlayerListeners(pRev)
    /\ pComp = FALSE
    /\ pEnc = FALSE
    /\ pSent = <<>>
    /\ pLoginPc = "idle"
    /\ pLoginJwt = "-"
    /\ pInbound = 0
    /\ pUserSends = 0

\* a batch the player can decompress: plaintext while encryption is off, and
\* once it is on a ciphertext under the session key, which only a client
\* that was sent the handshake can make
PlayerBatchDecompresses(seal) ==
    IF pEnc THEN seal = "sealed" /\ pHandshakes # {} ELSE seal = "plain"

\* handle() with a batch decompress rejects: nothing is processed
PlayerHandleThrows ==
    /\ pStatus # "off"
    /\ pInbound < MaxPlayerInbound
    /\ \E seal \in Seals : ~PlayerBatchDecompresses(seal)
    /\ pInbound' = pInbound + 1
    /\ UNCHANGED <<pOthers, pRev, pStatus, pOn, pComp, pEnc, pSent, pLoginPc,
                   pLoginJwt, pUserSends>>

\* handle() with a batch that decompresses: the part common to every packet
PlayerDecompressed ==
    /\ pStatus # "off"
    /\ pInbound < MaxPlayerInbound
    /\ \E seal \in Seals : PlayerBatchDecompresses(seal)
    /\ pInbound' = pInbound + 1
    /\ UNCHANGED <<pOthers, pRev, pUserSends>>

PlayerRequestNetworkSettings ==
    /\ PlayerDecompressed
    /\ IF "RequestNetworkSettingsPacket" \in pOn
       THEN /\ pOn' = pOn \ {"RequestNetworkSettingsPacket"}
            /\ pStatus' = IF pRev = "part_012" THEN "Connecting" ELSE pStatus
            /\ pSent' = PlayerSendPacket(pSent, "NetworkSettingsPacket", pRev,
                                         pStatus', pEnc, pComp)
            /\ pComp' = TRUE
       ELSE UNCHANGED <<pOn, pStatus, pSent, pComp>>
    /\ UNCHANGED <<pEnc, pLoginPc, pLoginJwt>>

\* the end of the LoginPacket handler: the handshake and startEncryption
PlayerHandshake(sent) ==
    PlayerSendPacket(sent, "ServerToClientHandshakePacket", pRev, pStatus,
                     IF PlayerLoginHandler[1] = "startEncryption" THEN TRUE ELSE pEnc,
                     pComp)

PlayerLogin ==
    /\ PlayerDecompressed
    /\ \E jwt \in LoginTokens :
         IF "LoginPacket" \notin pOn
         THEN UNCHANGED <<pOn, pSent, pEnc, pLoginPc, pLoginJwt>>
         ELSE /\ pOn' = pOn \ {"LoginPacket"}
              /\ IF pRev = "part_012"
                 THEN /\ pLoginPc' = "decodeLoginJWT"
                      /\ pLoginJwt' = jwt
                      /\ UNCHANGED <<pSent, pEnc>>
                 ELSE /\ pLoginPc' = IF jwt = "valid" THEN "done" ELSE "threw"
                      /\ pLoginJwt' = jwt
                      /\ IF jwt = "valid"
                         THEN /\ pSent' = PlayerHandshake(pSent)
                              /\ pEnc' = TRUE
                         ELSE UNCHANGED <<pSent, pEnc>>
    /\ UNCHANGED <<pStatus, pComp>>

\* the asynchronous handler resumes after await decodeLoginJWT
PlayerLoginDecoded ==
    /\ pLoginPc = "decodeLoginJWT"
    /\ IF pLoginJwt = "valid"
       THEN /\ pLoginPc' = "importPKCS8"
            /\ UNCHANGED pSent
       ELSE /\ pLoginPc' = "caught"
            /\ pSent' = PlayerSendPacket(pSent, "DisconnectPacket", pRev, pStatus,
                                         pEnc, pComp)
    /\ UNCHANGED <<pOthers, pRev, pStatus, pOn, pComp, pEnc, pLoginJwt, pInbound,
                   pUserSends>>

\* it resumes after await jose.importPKCS8
PlayerLoginImported ==
    /\ pLoginPc = "importPKCS8"
    /\ pLoginPc' = "sign"
    /\ UNCHANGED <<pOthers, pRev, pStatus, pOn, pComp, pEnc, pSent, pLoginJwt,
                   pInbound, pUserSends>>

\* it resumes after await sign(): the handshake, then startEncryption
PlayerLoginSigned ==
    /\ pLoginPc = "sign"
    /\ pLoginPc' = "done"
    /\ pSent' = PlayerHandshake(pSent)
    /\ pEnc' = TRUE
    /\ UNCHANGED <<pOthers, pRev, pStatus, pOn, pComp, pLoginJwt, pInbound,
                   pUserSends>>

PlayerClientToServerHandshake ==
    /\ PlayerDecompressed
    /\ IF "ClientToServerHandshakePacket" \in pOn
       THEN /\ pOn' = pOn \ {"ClientToServerHandshakePacket"}
            /\ pSent' = PlayerSendPacket(pSent, "PlayStatusPacket", pRev, pStatus,
                                         pEnc, pComp)
       ELSE UNCHANGED <<pOn, pSent>>
    /\ UNCHANGED <<pStatus, pComp, pEnc, pLoginPc, pLoginJwt>>

PlayerSetLocalPlayerAsInitialized ==
    /\ PlayerDecompressed
    /\ IF "SetLocalPlayerAsInitializedPacket" \in pOn
       THEN /\ pOn' = pOn \ {"SetLocalPlayerAsInitializedPacket"}
            /\ pStatus' = "Connected"
       ELSE UNCHANGED <<pOn, pStatus>>
    /\ UNCHANGED <<pComp, pEnc, pSent, pLoginPc, pLoginJwt>>

\* the application calls send() or queue() on the player
PlayerUserSend ==
    /\ pStatus # "off"
    /\ pUserSends < MaxPlayerSends
    /\ pUserSends' = pUserSends + 1
    /\ pSent' = PlayerSendPacket(pSent, "TextPacket", pRev, pStatus, pEnc, pComp)
    /\ UNCHANGED <<pOthers, pRev, pStatus, pOn, pComp, pEnc, pLoginPc, pLoginJwt,
                   pInbound>>

PNext ==
    \/ PlayerHandleThrows
    \/ PlayerRequestNetworkSettings
    \/ PlayerLogin
    \/ PlayerLoginDecoded
    \/ PlayerLoginImported
    \/ PlayerLoginSigned
    \/ PlayerClientToServerHandshake
    \/ PlayerSetLocalPlayerAsInitialized
    \/ PlayerUserSend

SpecServer == PInit /\ [][PNext]_vars

\* either end of a connection, each against any peer
SessionInit == CInit \/ PInit

SessionNext == CNext \/ PNext

SpecSession == SessionInit /\ [][SessionNext]_vars

(***************************************************************************)
(* Bridge: one BridgePlayer after interception is installed.  bRev names   *)
(* the revision of Bridge.processPacketCommon: the one in                  *)
(* src/bridge/bridge.ts or the older one.                                  *)
(***************************************************************************)
BridgeRevisions == {"bridge.ts", "part_006"}

\* packet bytes: the packet they decode to and the form of the encoding.
\* "padded" bytes decode to the same packet as the canonical ones but are
\* not what serialize() writes; "malformed" bytes make deserialize() throw
Wire(name, val, form) == [name |-> name, val |-> val, form |-> form]

ClientboundPackets ==
    { Wire("LevelChunkPacket", "a", "canonical"),
      Wire("LevelChunkPacket", "b", "canonical"),
      Wire("LevelChunkPacket", "a", "padded"),
      Wire("LevelChunkPacket", "a", "malformed"),
      Wire("StartGamePacket", "a", "canonical"),
      Wire("StartGamePacket", "a", "malformed"),
      Wire("TextPacket", "a", "canonical"),
      Wire("TextPacket", "a", "padded"),
      Wire("ClientCacheStatusPacket", "enabled", "canonical"),
      Wire("Unknown", "a", "canonical") }

ServerboundPackets ==
    { Wire("TextPacket", "a", "canonical"),
      Wire("ItemStackRequestPacket", "a", "canonical"),
      Wire("ResourcePackClientResponsePacket", "a", "canonical"),
      Wire("ClientCacheStatusPacket", "enabled", "canonical"),
      Wire("Unknown", "a", "canonical") }

BridgeInbound ==
    [dir : {"clientbound"}, bytes : ClientboundPackets]
        \cup [dir : {"serverbound"}, bytes : ServerboundPackets]

Deserialize(bytes) == [name |-> bytes.name, val |-> bytes.val]

Serialize(packet) == Wire(packet.name, packet.val, "canonical")

EventName(dir, name) == dir \o "-" \o name

\* the events the user of the bridge may listen to
UserEvents ==
    {"clientbound-LevelChunkPacket", "clientbound-TextPacket",
     "serverbound-TextPacket"}

\* the listeners the bridge itself registers on the BridgePlayer
InternalEvents ==
    {"clientbound-StartGamePacket", "serverbound-ResourcePackClientResponsePacket"}

\* one call of send(): to the downstream player or to the upstream client,
\* the bytes, the arrival (index in bRecv, 0 for none) they stem from, and
\* whether the packet's event had a listener
Forward(dir, bytes, of, listened) ==
    [to |-> IF dir = "clientbound" THEN "down" ELSE "up",
     sent |-> bytes, of |-> of, listened |-> listened]

\* the constructor of BridgePlayer and Bridge.onLogin
BInit ==
    /\ ZIdle
    /\ CIdle
    /\ PIdle
    /\ DIdle
    /\ UIdle
    /\ AIdle
    /\ EIdle
    /\ WIdle
    /\ KIdle
    /\ RIdle
    /\ MIdle
    /\ bRev \in BridgeRevisions
    /\ bPostStartGame = FALSE
    /\ bQueue = <<>>
    /\ bUserOn \in SUBSET UserEvents
    /\ bInternalOn = InternalEvents
    /\ bCache = {}
    /\ bRecv = <<>>
    /\ bSent = <<>>
    /\ bOffered = <<>>

HasListeners(event) == event \in bUserOn \/ event \in bInternalOn

IsQueued(m) == m.bytes.name = "LevelChunkPacket" /\ ~bPostStartGame

NeedsProcessing(m) ==
    HasListeners(EventName(m.dir, m.bytes.name))
        \/ m.bytes.name = "ClientCacheStatusPacket"

IsCached(m) == \E e \in bCache : e.key = m.bytes

\* the packet arrives and is forwarded as it is
PassThrough(m) ==
    /\ bRecv' = Append(bRecv, m)
    /\ bSent' = Append(bSent, Forward(m.dir, m.bytes, Len(bRecv) + 1,
                                      HasListeners(EventName(m.dir, m.bytes.name))))
    /\ UNCHANGED <<bOthers, bRev, bPostStartGame, bQueue, bUserOn, bInternalOn,
                   bCache, bOffered>>

\* an id that is not in the catalog and is not 129
BridgePassUnknown ==
    /\ Len(bRecv) < MaxBridgeInbound
    /\ \E m \in BridgeInbound :
         /\ m.bytes.name = "Unknown"
         /\ PassThrough(m)

\* a LevelChunk before StartGame: queued deserialized; if it does not
\* deserialize it is forwarded at once (bridge.ts) or lost (older revision)
BridgeQueueChunk ==
    /\ Len(bRecv) < MaxBridgeInbound
    /\ \E m \in BridgeInbound :
         /\ IsQueued(m)
         /\ bRecv' = Append(bRecv, m)
         /\ IF m.bytes.form # "malformed"
            THEN /\ bQueue' = Append(bQueue, [name |-> m.bytes.name,
                                              val |-> m.bytes.val,
                                              of |-> Len(bRecv) + 1])
                 /\ UNCHANGED bSent
            ELSE /\ bSent' = IF bRev = "bridge.ts"
                             THEN Append(bSent,
                                    Forward(m.dir, m.bytes, Len(bRecv) + 1,
                                      HasListeners(EventName(m.dir, m.bytes.name))))
                             ELSE bSent
                 /\ UNCHANGED bQueue
    /\ UNCHANGED <<bOthers, bRev, bPostStartGame, bUserOn, bInternalOn, bCache,
                   bOffered>>

BridgePassItemStackRequest ==
    /\ Len(bRecv) < MaxBridgeInbound
    /\ \E m \in BridgeInbound :
         /\ m.bytes.name = "ItemStackRequestPacket"
         /\ PassThrough(m)

\* nobody listens and it is not the cache-status packet
BridgePassUnlistened ==
    /\ Len(bRecv) < MaxBridgeInbound
    /\ \E m \in BridgeInbound :
         /\ m.bytes.name \notin {"Unknown", "ItemStackRequestPacket"}
         /\ ~IsQueued(m)
         /\ ~NeedsProcessing(m)
         /\ PassThrough(m)

\* the same bytes were re-serialized before: the cached bytes are sent and
\* no listener runs
BridgeSendCached ==
    /\ Len(bRecv) < MaxBridgeInbound
    /\ \E m \in BridgeInbound :
         /\ m.bytes.name \notin {"Unknown", "ItemStackRequestPacket"}
         /\ ~IsQueued(m)
         /\ NeedsProcessing(m)
         /\ \E e \in bCache :
              /\ e.key = m.bytes
              /\ bSent' = Append(bSent, Forward(m.dir, e.out, Len(bRecv) + 1,
                                     HasListeners(EventName(m.dir, m.bytes.name))))
         /\ bRecv' = Append(bRecv, m)
    /\ UNCHANGED <<bOthers, bRev, bPostStartGame, bQueue, bUserOn, bInternalOn,
                   bCache, bOffered>>

\* deserialize throws: the original bytes are sent
BridgeDeserializeFails ==
    /\ Len(bRecv) < MaxBridgeInbound
    /\ \E m \in BridgeInbound :
         /\ m.bytes.name \notin {"Unknown", "ItemStackRequestPacket"}
         /\ ~IsQueued(m)
         /\ NeedsProcessing(m)
         /\ ~IsCached(m)
         /\ m.bytes.form = "malformed"
         /\ PassThrough(m)

\* the cache-status packet is dropped
BridgeDropClientCacheStatus ==
    /\ Len(bRecv) < MaxBridgeInbound
    /\ \E m \in BridgeInbound :
         /\ m.bytes.name = "ClientCacheStatusPacket"
         /\ ~IsCached(m)
         /\ m.bytes.form # "malformed"
         /\ bRecv' = Append(bRecv, m)
    /\ UNCHANGED <<bOthers, bRev, bPostStartGame, bQueue, bUserOn, bInternalOn,
                   bCache, bSent, bOffered>>

\* what a listener of the user does with the record and the signal it is
\* handed: nothing, set cancelled, change the record and set modified, or
\* change the record only
ListenerOutcomes(event) ==
    IF event \in bUserOn THEN {"none", "cancel", "modify", "mutate"} ELSE {"none"}

Mutates(outcome) == outcome \in {"modify", "mutate"}

\* one invocation of a listener of the user: the arrival the record stems
\* from, who emitted ("processPacketCommon" or "replay"), the third argument
\* of emit ("eventStatus" is the object {cancelled: false, modified: false},
\* "false" the boolean, "undefined" no argument), what the listener did, and
\* whether the record had a non-empty binary field
Offer(of, by, signal, outcome, binary) ==
    [of |-> of, by |-> by, signal |-> signal, outcome |-> outcome,
     binary |-> binary]

\* the third argument of player.emit in processPacketCommon
EventSignal(rev) == IF rev = "bridge.ts" THEN "eventStatus" ELSE "false"

\* what the listeners of the replayed chunks may do, one choice per chunk
ReplayOutcomes(event) ==
    IF event = "clientbound-StartGamePacket" /\ event \in bInternalOn
    THEN [1..Len(bQueue) -> ListenerOutcomes("clientbound-LevelChunkPacket")]
    ELSE {<<>>}

\* the once() listener of the BridgePlayer constructor replays the queue:
\* each chunk is emitted without a signal, serialized again and sent to the
\* downstream player
ReplayQueue(outcomes) ==
    [k \in 1..Len(bQueue) |->
        Forward("clientbound",
                Serialize([name |-> bQueue[k].name,
                           val |-> IF Mutates(outcomes[k]) THEN "m"
                                   ELSE bQueue[k].val]),
                bQueue[k].of,
                "clientbound-LevelChunkPacket" \in bUserOn)]

ReplayOffers(outcomes) ==
    IF "clientbound-LevelChunkPacket" \in bUserOn
    THEN [k \in 1..Len(bQueue) |->
            Offer(bQueue[k].of, "replay", "undefined", outcomes[k], FALSE)]
    ELSE <<>>

\* what the bridge's own listeners send while the event is emitted
InternalListeners(event, outcomes) ==
    IF event \notin bInternalOn THEN <<>>
    ELSE IF event = "clientbound-StartGamePacket" THEN ReplayQueue(outcomes)
    ELSE <<Forward("clientbound",
                   Wire("ClientCacheStatusPacket", "disabled", "canonical"),
                   0, TRUE)>>

\* the packet is deserialized, the listeners run, and it is sent on unless
\* cancelled: re-serialized if modified or normalised, as received otherwise
BridgeIntercept ==
    /\ Len(bRecv) < MaxBridgeInbound
    /\ \E m \in BridgeInbound :
         LET event == EventName(m.dir, m.bytes.name)
         IN  /\ m.bytes.name \notin {"Unknown", "ItemStackRequestPacket",
                                     "ClientCacheStatusPacket"}
             /\ ~IsQueued(m)
             /\ HasListeners(event)
             /\ ~IsCached(m)
             /\ m.bytes.form # "malformed"
             /\ \E outcome \in ListenerOutcomes(event), hasBinary \in BOOLEAN,
                   replayed \in ReplayOutcomes(event) :
                  LET cancelled == bRev = "bridge.ts" /\ outcome = "cancel"
                      packet == [Deserialize(m.bytes) EXCEPT
                                   !.val = IF Mutates(outcome) THEN "m" ELSE @]
                      reserialize == bRev = "part_006" \/ outcome = "modify"
                                         \/ hasBinary
                      out == IF reserialize THEN Serialize(packet) ELSE m.bytes
                  IN  /\ bSent' = bSent \o InternalListeners(event, replayed)
                                    \o (IF cancelled THEN <<>>
                                        ELSE <<Forward(m.dir, out, Len(bRecv) + 1, TRUE)>>)
                      /\ bCache' = IF ~cancelled /\ reserialize
                                   THEN { e \in bCache : e.key # m.bytes }
                                            \cup {[key |-> m.bytes, out |-> out]}
                                   ELSE bCache
                      /\ bOffered' = bOffered
                            \o (IF event \in bUserOn
                                THEN <<Offer(Len(bRecv) + 1, "processPacketCommon",
                                             EventSignal(bRev), outcome, hasBinary)>>
                                ELSE <<>>)
                            \o (IF event = "clientbound-StartGamePacket"
                                      /\ event \in bInternalOn
                                THEN ReplayOffers(replayed) ELSE <<>>)
             /\ bInternalOn' = bInternalOn \ {event}
             /\ bPostStartGame' =
                    (bPostStartGame
                        \/ (event = "clientbound-StartGamePacket" /\ event \in bInternalOn))
             /\ bRecv' = Append(bRecv, m)
    /\ UNCHANGED <<bOthers, bRev, bQueue, bUserOn>>

BNext ==
    \/ BridgePassUnknown
    \/ BridgeQueueChunk
    \/ BridgePassItemStackRequest
    \/ BridgePassUnlistened
    \/ BridgeSendCached
    \/ BridgeDeserializeFails
    \/ BridgeDropClientCacheStatus
    \/ BridgeIntercept

SpecBridge == BInit /\ [][BNext]_vars

(***************************************************************************)
(* Dispatch: what handle() and processPacket() of a session do with one    *)
(* decompressed batch.  dRev names the dispatcher: the Client's, the two   *)
(* Player classes of src/server/player.ts (the second one takes the whole  *)
(* batch in processPacket), and the Player with a status.                  *)
(***************************************************************************)
Dispatchers == {"client.ts", "player.ts", "player.ts(batch)", "part_012"}

\* the revisions whose processPacket looks for the ClientCacheStatus id first
CacheStatusAware == {"player.ts", "part_012"}

SubPacketNames(rev) ==
    {"TextPacket", "unknown"} \cup
    (IF rev \in CacheStatusAware THEN {"ClientCacheStatusPacket"} ELSE {})

\* a sub-packet: the class its id names ("unknown" when the table has none)
\* and whether its body deserializes
SubPackets(rev) ==
    {pk \in [name : SubPacketNames(rev), ok : BOOLEAN] : pk.name = "unknown" => pk.ok}

InboundBatches(rev) ==
    UNION {[1..n -> SubPackets(rev)] : n \in 1..MaxBatchLen}

DispatchNames(rev) == (SubPacketNames(rev) \ {"unknown"}) \cup {"packet"}

\* Emitter.emit: the listener of the name, if any, is invoked; what it throws
\* is caught and logged by the emitter
Emit(name, on, throws) ==
    IF name \in on THEN <<[listener |-> name, threw |-> name \in throws]>> ELSE <<>>

Processed(calls) == [calls |-> calls, threw |-> FALSE, returned |-> FALSE]

Thrown == [calls |-> <<>>, threw |-> TRUE, returned |-> FALSE]

Returned == [calls |-> <<>>, threw |-> FALSE, returned |-> TRUE]

\* Client.processPacket: everything inside one try/catch
ClientProcessPacket(pk, on, throws) ==
    LET hasSpecificListener == pk.name \in on
        hasGenericListener == "packet" \in on
    IN  IF pk.name = "unknown" THEN Processed(<<>>)
        ELSE IF ~(hasSpecificListener \/ hasGenericListener) THEN Processed(<<>>)
        ELSE IF ~pk.ok THEN Processed(<<>>)
        ELSE Processed(Emit(pk.name, on, throws) \o Emit("packet", on, throws))

\* Player.processPacket of src/server/player.ts, first class
PlayerProcessPacket(pk, on, throws) ==
    IF pk.name = "ClientCacheStatusPacket"
    THEN IF pk.ok THEN Processed(Emit(pk.name, on, throws)) ELSE Thrown
    ELSE IF pk.name = "unknown" THEN Processed(<<>>)
    ELSE IF ~pk.ok THEN Thrown
    ELSE Processed(Emit(pk.name, on, throws) \o Emit("packet", on, throws))

\* Player.processPacket of the Player with a status
StatusPlayerProcessPacket(pk, on, throws) ==
    IF pk.name = "ClientCacheStatusPacket"
    THEN IF pk.ok THEN Processed(Emit(pk.name, on, throws)) ELSE Thrown
    ELSE IF pk.name = "unknown" THEN Processed(<<>>)
    ELSE IF ~pk.ok THEN Thrown
    ELSE Processed(Emit("packet", on, throws) \o Emit(pk.name, on, throws))

\* one turn of the loop of Player.processPacket(packets), second class of
\* src/server/player.ts: an unknown id returns from the whole call
BatchPlayerProcessPacket(pk, on, throws) ==
    IF pk.name = "unknown" THEN Returned
    ELSE IF ~pk.ok THEN Thrown
    ELSE Processed(Emit(pk.name, on, throws) \o Emit("packet", on, throws))

ProcessPacket(rev, pk, on, throws) ==
    CASE rev = "client.ts" -> ClientProcessPacket(pk, on, throws)
      [] rev = "player.ts" -> PlayerProcessPacket(pk, on, throws)
      [] rev = "part_012" -> StatusPlayerProcessPacket(pk, on, throws)
      [] rev = "player.ts(batch)" -> BatchPlayerProcessPacket(pk, on, throws)

\* the loop over the sub-packets of a batch, from sub-packet i on: the calls
\* made, each with the index of its sub-packet, and whether an exception left
\* the loop
RECURSIVE HandleFrom(_, _, _, _, _)
HandleFrom(rev, batch, i, on, throws) ==
    IF i > Len(batch) THEN [calls |-> <<>>, threw |-> FALSE]
    ELSE LET r == ProcessPacket(rev, batch[i], on, throws)
             calls == [k \in 1..Len(r.calls) |->
                          [sub |-> i, listener |-> r.calls[k].listener,
                           threw |-> r.calls[k].threw]]
         IN  IF r.threw \/ r.returned
             THEN [calls |-> calls, threw |-> r.threw]
             ELSE LET rest == HandleFrom(rev, batch, i + 1, on, throws)
                  IN  [calls |-> calls \o rest.calls, threw |-> rest.threw]

DInit ==
    /\ ZIdle
    /\ CIdle
    /\ PIdle
    /\ BIdle
    /\ UIdle
    /\ AIdle
    /\ EIdle
    /\ WIdle
    /\ KIdle
    /\ RIdle
    /\ MIdle
    /\ dRev \in Dispatchers
    /\ dOn = {}
    /\ dThrows = {}
    /\ dBatch = <<>>
    /\ dLog = <<>>
    /\ dEscaped = FALSE
    /\ dHandled = 0

\* the application registers a listener; it may be one that throws
DispatchOn ==
    \E name \in (DispatchNames(dRev) \ dOn), throws \in BOOLEAN :
        /\ dOn' = dOn \cup {name}
        /\ dThrows' = IF throws THEN dThrows \cup {name} ELSE dThrows
        /\ UNCHANGED <<dRev, dBatch, dLog, dEscaped, dHandled, dOthers>>

\* Client.handleEncapsulated, after decompress
ClientHandleEncapsulated ==
    /\ dRev = "client.ts"
    /\ dHandled < MaxBatches
    /\ \E batch \in InboundBatches(dRev) :
        LET r == HandleFrom(dRev, batch, 1, dOn, dThrows)
        IN  /\ dBatch' = batch
            /\ dLog' = r.calls
            /\ dEscaped' = FALSE
    /\ dHandled' = dHandled + 1
    /\ UNCHANGED <<dRev, dOn, dThrows, dOthers>>

\* Player.handle, after decompress: nothing catches what processPacket throws
PlayerHandle ==
    /\ dRev # "client.ts"
    /\ dHandled < MaxBatches
    /\ \E batch \in InboundBatches(dRev) :
        LET r == HandleFrom(dRev, batch, 1, dOn, dThrows)
        IN  /\ dBatch' = batch
            /\ dLog' = r.calls
            /\ dEscaped' = r.threw
    /\ dHandled' = dHandled + 1
    /\ UNCHANGED <<dRev, dOn, dThrows, dOthers>>

DNext ==
    \/ DispatchOn
    \/ ClientHandleEncapsulated
    \/ PlayerHandle

SpecDispatch == DInit /\ [][DNext]_vars

(***************************************************************************)
(* Pair: one downstream Player of the bridge from Bridge.onConnect on, and *)
(* the upstream Clients Bridge.onLogin makes for it (src/bridge/bridge.ts). *)
(* uClients holds a record per Client constructed; uTarget is the Client   *)
(* the Player's packets are forwarded to once processPacket is replaced,   *)
(* 0 before that.                                                          *)
(***************************************************************************)
\* a send on an upstream Client: by the bridge itself or forwarding for the
\* downstream client
Upstream(client, pk, val, by) ==
    [client |-> client, pk |-> pk, val |-> val, by |-> by]

\* a send on the downstream Player
Downstream(pk, val, by) == [pk |-> pk, val |-> val, by |-> by]

\* Bridge.onLogin: a Client is constructed, given its once() listeners and
\* connected; login records how far the Player's own login had come
OnLogin(clients, login) ==
    Append(clients, [login |-> login, resourcePacksInfoOn |-> TRUE,
                     playStatusOn |-> TRUE, hooked |-> FALSE, closed |-> FALSE])

\* Bridge.onConnect
UInit ==
    /\ ZIdle
    /\ CIdle
    /\ PIdle
    /\ BIdle
    /\ DIdle
    /\ AIdle
    /\ EIdle
    /\ WIdle
    /\ KIdle
    /\ RIdle
    /\ MIdle
    /\ uClients = <<>>
    /\ uTarget = 0
    /\ uLogin = "none"
    /\ uCacheOn = TRUE
    /\ uCacheStatus = "unset"
    /\ uRpcrOn = 0
    /\ uUp = <<>>
    /\ uDown = <<>>
    /\ uRecv = 0
    /\ uCcsDropped = 0
    /\ uAlive = TRUE
    /\ uFromD = <<>>

\* the Player has finished its own handshake: Login accepted and a
\* ClientToServerHandshake received
Handshaken == uLogin = "accepted" /\ uClients # <<>>

\* the packets the downstream client sent after its handshake
Received(pk) == IF Handshaken THEN Append(uFromD, pk) ELSE uFromD

\* the Player's processPacket has been replaced by the bridge
PlayerHooked == uTarget # 0

\* processPacketCommon, serverbound, nobody listening: the buffer is sent on
\* the Client the hook was made for
\* Client.send: nothing is handed to RakNet once the Client is disconnected
ClientSend(i, pk, val, by) ==
    IF uClients[i].closed THEN uUp ELSE Append(uUp, Upstream(i, pk, val, by))

ForwardUp(pk, val) == ClientSend(uTarget, pk, val, "forward")

\* the Clients whose RakNet connection is open
Open == {i \in 1..Len(uClients) : ~uClients[i].closed}

\* the downstream client sends Login: the Player's once() handler accepts it
\* or throws on it; after the hook the packet is forwarded
PairLogin ==
    /\ uAlive
    /\ uRecv < MaxPairInbound
    /\ uFromD' = Received("LoginPacket")
    /\ uRecv' = uRecv + 1
    /\ \E accepted \in BOOLEAN :
         IF PlayerHooked
         THEN /\ uUp' = ForwardUp("LoginPacket", "-")
              /\ UNCHANGED uLogin
         ELSE /\ uLogin' = IF uLogin # "none" THEN uLogin
                           ELSE IF accepted THEN "accepted" ELSE "failed"
              /\ UNCHANGED uUp
    /\ UNCHANGED <<uOthers, uAlive, uClients, uTarget, uCacheOn, uCacheStatus, uRpcrOn,
                   uDown, uCcsDropped>>

\* the downstream client sends ClientToServerHandshake: Player.processPacket
\* emits it and the listener of Bridge.onConnect calls onLogin; after the
\* hook the packet is forwarded
PairClientToServerHandshake ==
    /\ uAlive
    /\ uRecv < MaxPairInbound
    /\ uFromD' = Received("ClientToServerHandshakePacket")
    /\ uRecv' = uRecv + 1
    /\ IF PlayerHooked
       THEN /\ uUp' = ForwardUp("ClientToServerHandshakePacket", "-")
            /\ UNCHANGED <<uClients, uRpcrOn>>
       ELSE /\ uClients' = OnLogin(uClients, uLogin)
            /\ uRpcrOn' = uRpcrOn + 1
            /\ UNCHANGED uUp
    /\ UNCHANGED <<uOthers, uAlive, uTarget, uLogin, uCacheOn, uCacheStatus, uDown,
                   uCcsDropped>>

\* the downstream client sends ClientCacheStatus: before the hook the
\* Player emits it and the once() listener of onConnect keeps the flag;
\* after the hook processPacketCommon drops it
PairClientCacheStatus ==
    /\ uAlive
    /\ uRecv < MaxPairInbound
    /\ uFromD' = Received("ClientCacheStatusPacket")
    /\ uRecv' = uRecv + 1
    /\ \E enabled \in {"enabled", "disabled"} :
         IF PlayerHooked
         THEN /\ uCcsDropped' = uCcsDropped + 1
              /\ UNCHANGED <<uCacheOn, uCacheStatus>>
         ELSE /\ uCacheStatus' = IF uCacheOn THEN enabled ELSE uCacheStatus
              /\ uCacheOn' = FALSE
              /\ UNCHANGED uCcsDropped
    /\ UNCHANGED <<uOthers, uAlive, uClients, uTarget, uLogin, uRpcrOn, uUp, uDown>>

\* the downstream client sends ResourcePackClientResponse: after the hook
\* the once() listeners of onLogin send a ClientCacheStatus on the Player,
\* then the packet is forwarded; before the hook nobody listens
PairResourcePackClientResponse ==
    /\ uAlive
    /\ uRecv < MaxPairInbound
    /\ uFromD' = Received("ResourcePackClientResponsePacket")
    /\ uRecv' = uRecv + 1
    /\ IF PlayerHooked
       THEN /\ uDown' = uDown \o [k \in 1..uRpcrOn |->
                                    Downstream("ClientCacheStatusPacket",
                                               "disabled", "bridge")]
            /\ uRpcrOn' = 0
            /\ uUp' = ForwardUp("ResourcePackClientResponsePacket", "-")
       ELSE UNCHANGED <<uDown, uRpcrOn, uUp>>
    /\ UNCHANGED <<uOthers, uAlive, uClients, uTarget, uLogin, uCacheOn, uCacheStatus,
                   uCcsDropped>>

\* the server sends ResourcePacksInfo to Client i: before that Client's hook
\* the once() listener of onLogin sends a ClientCacheStatus upstream; after
\* it the packet is forwarded downstream
PairResourcePacksInfo ==
    /\ uRecv < MaxPairInbound
    /\ uRecv' = uRecv + 1
    /\ \E i \in Open :
         IF uClients[i].hooked
         THEN /\ uDown' = Append(uDown, Downstream("ResourcePacksInfoPacket", "-",
                                                   "forward"))
              /\ UNCHANGED <<uUp, uClients>>
         ELSE /\ uUp' = IF uClients[i].resourcePacksInfoOn
                        THEN Append(uUp, Upstream(i, "ClientCacheStatusPacket",
                                                  "disabled", "bridge"))
                        ELSE uUp
              /\ uClients' = [uClients EXCEPT ![i].resourcePacksInfoOn = FALSE]
              /\ UNCHANGED uDown
    /\ UNCHANGED <<uOthers, uAlive, uFromD, uTarget, uLogin, uCacheOn, uCacheStatus, uRpcrOn,
                   uCcsDropped>>

\* the server sends PlayStatus to Client i: the once() listener of onLogin
\* replaces processPacket of that Client and of the Player on LoginSuccess
\* and throws otherwise; after the hook the packet is forwarded downstream
PairPlayStatus ==
    /\ uRecv < MaxPairInbound
    /\ uRecv' = uRecv + 1
    /\ \E i \in Open, status \in {"LoginSuccess", "FailedClient"} :
         IF uClients[i].hooked
         THEN /\ uDown' = Append(uDown, Downstream("PlayStatusPacket", status,
                                                   "forward"))
              /\ UNCHANGED <<uClients, uTarget>>
         ELSE /\ uClients' = [uClients EXCEPT
                                ![i].playStatusOn = FALSE,
                                ![i].hooked = uClients[i].playStatusOn
                                                 /\ status = "LoginSuccess"]
              /\ uTarget' = IF uClients[i].playStatusOn /\ status = "LoginSuccess"
                            THEN i ELSE uTarget
              /\ UNCHANGED uDown
    /\ UNCHANGED <<uOthers, uAlive, uFromD, uLogin, uCacheOn, uCacheStatus, uRpcrOn, uUp,
                   uCcsDropped>>

\* the real server sends Disconnect to Client i: the Client has no listener
\* for it; after the hook it is forwarded downstream like any packet
PairDisconnectPacket ==
    /\ uRecv < MaxPairInbound
    /\ uRecv' = uRecv + 1
    /\ \E i \in Open :
         uDown' = IF uClients[i].hooked
                  THEN Append(uDown, Downstream("DisconnectPacket", "-", "forward"))
                  ELSE uDown
    /\ UNCHANGED <<uOthers, uAlive, uFromD, uClients, uTarget, uLogin, uCacheOn,
                   uCacheStatus, uRpcrOn, uUp, uCcsDropped>>

\* RakNet reports "close" on Client i: the Client's own listener calls
\* disconnect(); the bridge listens to nothing on the Client for it
PairUpstreamClose ==
    /\ \E i \in Open : uClients' = [uClients EXCEPT ![i].closed = TRUE]
    /\ UNCHANGED <<uOthers, uAlive, uFromD, uTarget, uLogin, uCacheOn, uCacheStatus,
                   uRpcrOn, uUp, uDown, uRecv, uCcsDropped>>

\* the downstream connection reports "disconnect": Server.onDisconnect reads
\* player.profile.name (it throws when no Login set the profile) and emits
\* "disconnect"; the listener of Bridge.prepare sends a Disconnect on
\* player.client, the Client made last
PairDownstreamDisconnect ==
    /\ uAlive
    /\ uAlive' = FALSE
    /\ uUp' = IF uLogin = "accepted" /\ uClients # <<>>
              THEN ClientSend(Len(uClients), "DisconnectPacket", "-", "bridge")
              ELSE uUp
    /\ UNCHANGED <<uOthers, uClients, uTarget, uLogin, uCacheOn, uCacheStatus,
                   uRpcrOn, uDown, uRecv, uCcsDropped, uFromD>>

UNext ==
    \/ PairDisconnectPacket
    \/ PairUpstreamClose
    \/ PairDownstreamDisconnect
    \/ PairLogin
    \/ PairClientToServerHandshake
    \/ PairClientCacheStatus
    \/ PairResourcePackClientResponse
    \/ PairResourcePacksInfo
    \/ PairPlayStatus

SpecPair == UInit /\ [][UNext]_vars

(***************************************************************************)
(* Auth: one call of readAuth on the chain of a LoginPacket.  aRev names   *)
(* the revision: the synchronous one over jsonwebtoken                     *)
(* (src/network/auth.ts:152) or the asynchronous one over jose             *)
(* (src/network/auth.ts:424, the same text as src/shared/auth.ts:513).     *)
(* A token is its header's x5u, the key whose private half signed it, and  *)
(* the identityPublicKey claim of its payload, "none" when it has none.    *)
(***************************************************************************)
\* the Mojang root key
PUBLIC_KEY == "mojang"

AuthKeys == {PUBLIC_KEY, "k1"}

AuthTokens ==
    [x5u : AuthKeys, signedBy : AuthKeys,
     identityPublicKey : AuthKeys \cup {"none"}]

AuthChains == UNION { [1..n -> AuthTokens] : n \in 0..MaxChain }

AuthRevisions == {"jsonwebtoken", "jose"}

getX5U(token) == token.x5u

\* verify(token, pubKey) and jose.jwtVerify(token, publicKey): the signature
\* checks under the key given
Verifies(token, pubKey) == token.signedBy = pubKey

\* the key the next token is checked under: the identityPublicKey claim if
\* the payload has one; otherwise the jose revision takes getDER(x5u) and
\* the jsonwebtoken revision the x5u string itself, which is no key
NextPubKey(rev, token) ==
    IF token.identityPublicKey # "none" THEN token.identityPublicKey
    ELSE IF rev = "jose" THEN getX5U(token) ELSE "x5u string"

\* the key kept for the caller
NextKey(rev, token, key) ==
    IF token.identityPublicKey # "none" THEN token.identityPublicKey
    ELSE IF rev = "jose" THEN getX5U(token) ELSE key

AInit ==
    /\ ZIdle
    /\ CIdle
    /\ PIdle
    /\ BIdle
    /\ DIdle
    /\ UIdle
    /\ EIdle
    /\ WIdle
    /\ KIdle
    /\ RIdle
    /\ MIdle
    /\ aRev \in AuthRevisions
    /\ aChain \in AuthChains
    /\ aPc = "readAuth"
    /\ aIdx = 0
    /\ aPubKey = "-"
    /\ aKey = "null"
    /\ aVerified = FALSE
    /\ aData = "none"
    /\ aReturned = [key |-> "null", data |-> "none"]

\* let pubKey = getDER(getX5U(chain[0])): throws on an empty chain
ReadAuthFirstKey ==
    /\ aPc = "readAuth"
    /\ IF aChain = <<>>
       THEN /\ aPc' = "threw"
            /\ UNCHANGED <<aIdx, aPubKey>>
       ELSE /\ aPc' = "for"
            /\ aIdx' = 1
            /\ aPubKey' = getX5U(aChain[1])
    /\ UNCHANGED <<aOthers, aRev, aChain, aKey, aVerified, aData, aReturned>>

\* one turn of for (const token of chain)
ReadAuthToken ==
    /\ aPc = "for"
    /\ aIdx <= Len(aChain)
    /\ LET token == aChain[aIdx] IN
         IF ~Verifies(token, aPubKey)
         THEN /\ aPc' = "threw"
              /\ UNCHANGED <<aIdx, aPubKey, aKey, aVerified, aData>>
         ELSE /\ aVerified' = (aVerified \/ getX5U(token) = PUBLIC_KEY)
              /\ aPubKey' = NextPubKey(aRev, token)
              /\ aKey' = NextKey(aRev, token, aKey)
              /\ aData' = IF token.identityPublicKey # "none"
                          THEN token.identityPublicKey ELSE aData
              /\ aIdx' = aIdx + 1
              /\ UNCHANGED aPc
    /\ UNCHANGED <<aOthers, aRev, aChain, aReturned>>

\* after the loop: the jose revision throws without a key; both return
\* { key, data }
ReadAuthReturn ==
    /\ aPc = "for"
    /\ aIdx > Len(aChain)
    /\ IF aRev = "jose" /\ aKey = "null"
       THEN /\ aPc' = "threw"
            /\ UNCHANGED aReturned
       ELSE /\ aPc' = "returned"
            /\ aReturned' = [key |-> aKey, data |-> aData]
    /\ UNCHANGED <<aOthers, aRev, aChain, aIdx, aPubKey, aKey, aVerified, aData>>

ANext ==
    \/ ReadAuthFirstKey
    \/ ReadAuthToken
    \/ ReadAuthReturn

SpecAuth == AInit /\ [][ANext]_vars

(***************************************************************************)
(* Encryptor: the PacketEncryptor and the key material of one session.     *)
(* eRev names the class: the Client (src/client/client.ts) and the two     *)
(* Players of src/server/player.ts, whose startEncryption differ.          *)
(* eSendCtr and eRecvCtr are the counters of the session's encryptor.      *)
(***************************************************************************)
EncryptorRevisions == {"client.ts", "player.ts", "player.ts(batch)"}

\* the fields the handshake handler stores key material in
KeyFields == {"sharedSecret", "secretKeyBytes", "iv"}

\* startEncryption(iv) on a session e = [encryptor, encryptors, enabled,
\* send, recv]: the Client makes a new PacketEncryptor every time, the first
\* Player only when it has none, the second Player throws when it has one
StartEncryption(rev, e) ==
    IF rev # "client.ts" /\ e.encryptor # "none" THEN e
    ELSE [encryptor |-> "live", encryptors |-> e.encryptors + 1,
          enabled |-> TRUE, send |-> 0, recv |-> 0]

eSession ==
    [encryptor |-> eEncryptor, encryptors |-> eEncryptors, enabled |-> eEnabled,
     send |-> eSendCtr, recv |-> eRecvCtr]

eStarted(e) ==
    /\ eEncryptor' = e.encryptor
    /\ eEncryptors' = e.encryptors
    /\ eEnabled' = e.enabled
    /\ eSendCtr' = e.send
    /\ eRecvCtr' = e.recv

EInit ==
    /\ ZIdle
    /\ CIdle
    /\ PIdle
    /\ BIdle
    /\ DIdle
    /\ UIdle
    /\ AIdle
    /\ WIdle
    /\ KIdle
    /\ RIdle
    /\ MIdle
    /\ eRev \in EncryptorRevisions
    /\ eStatus = "Connecting"
    /\ eHandshakeOn = TRUE
    /\ eEncryptors = 0
    /\ eEncryptor = "none"
    /\ eEnabled = FALSE
    /\ eKeys = {}
    /\ eSendCtr = 0
    /\ eRecvCtr = 0
    /\ eCalls = 0

\* the once() listener of the handshake packet runs (ServerToClientHandshake
\* on the Client, Login on a Player): the keys are derived and stored, then
\* startEncryption
EncryptorHandshake ==
    /\ eStatus = "Connecting"
    /\ eHandshakeOn
    /\ eHandshakeOn' = FALSE
    /\ eKeys' = KeyFields
    /\ eStarted(StartEncryption(eRev, eSession))
    /\ UNCHANGED <<eOthers, eRev, eStatus, eCalls>>

\* startEncryption is public: a call from outside the handler
EncryptorStartCall ==
    /\ eStatus # "off"
    /\ eCalls < MaxStartCalls
    /\ eCalls' = eCalls + 1
    /\ eStarted(StartEncryption(eRev, eSession))
    /\ UNCHANGED <<eOthers, eRev, eStatus, eHandshakeOn, eKeys>>

\* a batch is sealed by the encryptor
EncryptorSeal ==
    /\ eEncryptor = "live"
    /\ eSendCtr < MaxCounter
    /\ eSendCtr' = eSendCtr + 1
    /\ UNCHANGED <<eOthers, eRev, eStatus, eHandshakeOn, eEncryptors, eEncryptor,
                   eEnabled, eKeys, eRecvCtr, eCalls>>

\* a batch is opened by the encryptor
EncryptorOpen ==
    /\ eEncryptor = "live"
    /\ eRecvCtr < MaxCounter
    /\ eRecvCtr' = eRecvCtr + 1
    /\ UNCHANGED <<eOthers, eRev, eStatus, eHandshakeOn, eEncryptors, eEncryptor,
                   eEnabled, eKeys, eSendCtr, eCalls>>

\* Client.disconnect and cleanup: listeners removed, the encryptor
\* destroyed, the flag cleared; the fields with the keys are not touched
EncryptorDisconnect ==
    /\ eRev = "client.ts"
    /\ eStatus = "Connecting"
    /\ eStatus' = "Disconnected"
    /\ eHandshakeOn' = FALSE
    /\ eEncryptor' = IF eEncryptor = "none" THEN "none" ELSE "destroyed"
    /\ eEnabled' = IF eEncryptor = "none" THEN eEnabled ELSE FALSE
    /\ UNCHANGED <<eOthers, eRev, eEncryptors, eKeys, eSendCtr, eRecvCtr, eCalls>>

ENext ==
    \/ EncryptorHandshake
    \/ EncryptorStartCall
    \/ EncryptorSeal
    \/ EncryptorOpen
    \/ EncryptorDisconnect

SpecEncryptor == EInit /\ [][ENext]_vars


(***************************************************************************)
(* Key agreement: the Login of a Client, the Player's answer and the       *)
(* Client's handling of it.  The curve is modelled by the multiplicative   *)
(* group modulo DhPrime, a key by its one-byte encoding, SHA-256 by a      *)
(* position-weighted sum that gives 32 bytes.                              *)
(***************************************************************************)
DhPrime == 23
DhBase == 5

RECURSIVE Pow(_, _)
Pow(b, e) == IF e = 0 THEN 1 ELSE (b * Pow(b, e - 1)) % DhPrime

\* the padding character of base64
B64Pad == 64

\* Buffer.toString("base64"): three bytes to four sextets, padded
RECURSIVE ToBase64(_)
ToBase64(b) ==
    IF Len(b) = 0 THEN <<>>
    ELSE IF Len(b) = 1
         THEN <<b[1] \div 4, (b[1] % 4) * 16, B64Pad, B64Pad>>
    ELSE IF Len(b) = 2
         THEN <<b[1] \div 4, (b[1] % 4) * 16 + b[2] \div 16, (b[2] % 16) * 4, B64Pad>>
    ELSE <<b[1] \div 4, (b[1] % 4) * 16 + b[2] \div 16,
           (b[2] % 16) * 4 + b[3] \div 64, b[3] % 64>>
         \o ToBase64(SubSeq(b, 4, Len(b)))

\* Buffer.from(s, "base64"): four sextets to three bytes; the padding and
\* the bits left over are dropped
RECURSIVE FromBase64(_)
FromBase64(s) ==
    IF Len(s) < 2 \/ s[1] = B64Pad \/ s[2] = B64Pad THEN <<>>
    ELSE LET b1 == s[1] * 4 + s[2] \div 16
         IN  IF Len(s) < 3 \/ s[3] = B64Pad THEN <<b1>>
             ELSE LET b2 == (s[2] % 16) * 16 + s[3] \div 4
                  IN  IF Len(s) < 4 \/ s[4] = B64Pad THEN <<b1, b2>>
                      ELSE <<b1, b2, (s[3] % 4) * 64 + s[4]>>
                           \o FromBase64(SubSeq(s, 5, Len(s)))

\* createHash("sha256").update(..).digest(): 32 bytes
RECURSIVE Weighted(_, _, _)
Weighted(bytes, i, j) ==
    IF j > Len(bytes) THEN 0
    ELSE ((i + j) * bytes[j] + (j * j) + Weighted(bytes, i, j + 1)) % 251

Sha256(bytes) == [i \in 1..32 |-> Weighted(bytes, i, 1)]

\* const SALT = the salt emoji; SALT_BUFFER = Buffer.from(SALT)
SALT_BUFFER == <<240, 159, 167, 130>>

\* loginData: the public key of ecdhKeyPair and its base64 DER, clientX509
PublicKey(private) == Pow(DhBase, private)

ClientX509(private) == ToBase64(<<PublicKey(private)>>)

\* createPublicKey({ key: Buffer.from(key, "base64"), format: "der" })
CreatePublicKey(key) == FromBase64(key)[1]

\* createSharedSecret: ecdh.setPrivateKey(d); ecdh.computeSecret(04 x y)
CreateSharedSecret(private, public) == <<Pow(public, private)>>

\* the keys of the two tokens Mojang signs
MojangPrivate == MaxPrivate + 1
TitlePrivate == MaxPrivate + 2

\* createLoginPacket: chain = [clientIdentityChain, ...accessToken]; offline
\* the identity chain names the client's own key and accessToken is empty
LoginChain(private, offline) ==
    LET own == ClientX509(private)
    IN  IF offline
        THEN << [x5u |-> own, signedBy |-> own, identityPublicKey |-> own] >>
        ELSE << [x5u |-> own, signedBy |-> own,
                 identityPublicKey |-> ClientX509(MojangPrivate)],
                [x5u |-> ClientX509(MojangPrivate), signedBy |-> ClientX509(MojangPrivate),
                 identityPublicKey |-> ClientX509(TitlePrivate)],
                [x5u |-> ClientX509(TitlePrivate), signedBy |-> ClientX509(TitlePrivate),
                 identityPublicKey |-> own] >>

\* readAuth: every token verifies under the key the one before it names,
\* the first under its own x5u; key is the last identityPublicKey
RECURSIVE ReadChain(_, _, _, _)
ReadChain(chain, i, pubKey, key) ==
    IF i > Len(chain) THEN [ok |-> TRUE, key |-> key]
    ELSE IF chain[i].signedBy # pubKey THEN [ok |-> FALSE, key |-> <<>>]
    ELSE ReadChain(chain, i + 1, chain[i].identityPublicKey,
                   chain[i].identityPublicKey)

DecodeLoginJWT(chain) == ReadChain(chain, 1, chain[1].x5u, <<>>)

\* secretHash: the salt, then the shared secret
SecretHash_SecretFirst(salt, sharedSecret) == Sha256(sharedSecret \o salt)

SecretHash(salt, sharedSecret) == Sha256(salt \o sharedSecret)

KInit ==
    /\ ZIdle
    /\ CIdle
    /\ PIdle
    /\ BIdle
    /\ DIdle
    /\ UIdle
    /\ AIdle
    /\ EIdle
    /\ WIdle
    /\ RIdle
    /\ MIdle
    /\ kClient \in 1..MaxPrivate
    /\ kServer \in 1..MaxPrivate
    /\ kOffline \in BOOLEAN
    /\ kStage = "start"
    /\ kLogin = <<>>
    /\ kToken = <<>>
    /\ kPlayerKey = <<>>
    /\ kPlayerIv = <<>>
    /\ kClientKey = <<>>
    /\ kClientIv = <<>>

\* the Client sends its Login
KeySendLogin ==
    /\ kStage = "start"
    /\ kLogin' = LoginChain(kClient, kOffline)
    /\ kStage' = "login"
    /\ UNCHANGED <<kOthers, kClient, kServer, kOffline, kToken, kPlayerKey,
                   kPlayerIv, kClientKey, kClientIv>>

\* Player: once("LoginPacket")
KeyPlayerLogin ==
    /\ kStage = "login"
    /\ LET auth == DecodeLoginJWT(kLogin)
           sharedSecret == CreateSharedSecret(kServer, CreatePublicKey(auth.key))
           secretKeyBytes == SecretHash(SALT_BUFFER, sharedSecret)
       IN  /\ auth.ok
           /\ kPlayerKey' = secretKeyBytes
           /\ kToken' = [x5u |-> ClientX509(kServer), salt |-> ToBase64(SALT_BUFFER)]
           /\ kPlayerIv' = SubSeq(secretKeyBytes, 1, 16)
    /\ kStage' = "handshake"
    /\ UNCHANGED <<kOthers, kClient, kServer, kOffline, kLogin, kClientKey, kClientIv>>

\* Client: handleServerHandshake
KeyClientHandshake ==
    /\ kStage = "handshake"
    /\ LET sharedSecret == CreateSharedSecret(kClient, CreatePublicKey(kToken.x5u))
           secretHash == SecretHash(FromBase64(kToken.salt), sharedSecret)
       IN  /\ kClientKey' = secretHash
           /\ kClientIv' = SubSeq(secretHash, 1, 16)
    /\ kStage' = "done"
    /\ UNCHANGED <<kOthers, kClient, kServer, kOffline, kLogin, kToken, kPlayerKey,
                   kPlayerIv>>

KNext ==
    \/ KeySendLogin
    \/ KeyPlayerLogin
    \/ KeyClientHandshake

SpecKeys == KInit /\ [][KNext]_vars


(***************************************************************************)
(* Registry: Server.connections for one address:port key.  rConns[i] is    *)
(* the i-th RakNet connection from the address: whether a Player was       *)
(* constructed on it (and so listens to its "disconnect"), whether the     *)
(* Player was registered, whether its Login was handled (profile is set),  *)
(* whether it arrived with every earlier connection closed,                *)
(* and the connection's state: "open", "closing" once disconnect() was     *)
(* called on it and its notification is outstanding, "closed" once the     *)
(* notification was delivered.  rRegistry is the Player under the key, 0   *)
(* for none.                                                               *)
(***************************************************************************)
ServerRevisions ==
    {"server.ts:22", "server.ts:94", "server.ts:172", "server-options.ts"}

ServerEvent(ev, i) == [ev |-> ev, player |-> i]

\* Server.onDisconnect(player): the three revisions that read
\* player.profile.name throw while the Player has no profile; the one of
\* server-options.ts does not delete the key
OnDisconnect(rev, i, logged, registry, events) ==
    IF rev # "server.ts:94" /\ ~logged
    THEN [registry |-> registry, events |-> events, threw |-> 1]
    ELSE [registry |-> IF rev = "server-options.ts" THEN registry ELSE 0,
          events |-> Append(events, ServerEvent("disconnect", i)),
          threw |-> 0]

RInit ==
    /\ ZIdle
    /\ CIdle
    /\ PIdle
    /\ BIdle
    /\ DIdle
    /\ UIdle
    /\ AIdle
    /\ EIdle
    /\ WIdle
    /\ KIdle
    /\ MIdle
    /\ rRev \in ServerRevisions
    /\ rConns = <<>>
    /\ rRegistry = 0
    /\ rEvents = <<>>
    /\ rKicked = {}
    /\ rThrown = 0

\* alone: every earlier connection from the address had been closed
Connected(player, registered) ==
    [player |-> player, registered |-> registered, logged |-> FALSE,
     state |-> "open",
     alone |-> \A j \in 1..Len(rConns) : rConns[j].state = "closed"]

\* raknet.on("connect") of the revisions that keep the Player they have
RegistryConnectKeeps ==
    /\ rRev # "server.ts:94"
    /\ Len(rConns) < MaxConnections
    /\ IF rRegistry # 0
       THEN /\ rConns' = Append(rConns, Connected(rRev # "server.ts:22", FALSE))
            /\ UNCHANGED <<rRegistry, rEvents>>
       ELSE /\ rConns' = Append(rConns, Connected(TRUE, TRUE))
            /\ rRegistry' = Len(rConns) + 1
            /\ rEvents' = Append(rEvents, ServerEvent("playerConnect", Len(rConns) + 1))
    /\ UNCHANGED <<rOthers, rRev, rKicked, rThrown>>

\* raknet.on("connect") of the revision that replaces the Player it has:
\* send(Disconnect), connection.disconnect(), onDisconnect(existing), then
\* the new Player.  RakNet may notify the old connection's listener inside
\* disconnect() or later
RegistryConnectReplaces ==
    /\ rRev = "server.ts:94"
    /\ Len(rConns) < MaxConnections
    /\ \E inside \in BOOLEAN :
         LET old == rRegistry
             new == Len(rConns) + 1
             notified == IF old # 0 /\ inside /\ rConns[old].state = "open"
                         THEN OnDisconnect(rRev, old, rConns[old].logged, rRegistry,
                                           rEvents)
                         ELSE [registry |-> rRegistry, events |-> rEvents, threw |-> 0]
             cleaned == IF old # 0
                        THEN OnDisconnect(rRev, old, rConns[old].logged,
                                          notified.registry, notified.events)
                        ELSE notified
             closed == IF old = 0 THEN rConns
                       ELSE [rConns EXCEPT ![old].state =
                                IF @ = "open" /\ ~inside THEN "closing" ELSE "closed"]
         IN  /\ rKicked' = IF old # 0 THEN rKicked \cup {old} ELSE rKicked
             /\ rConns' = Append(closed, Connected(TRUE, TRUE))
             /\ rRegistry' = new
             /\ rEvents' = Append(cleaned.events, ServerEvent("playerConnect", new))
    /\ UNCHANGED <<rOthers, rRev, rThrown>>

\* the Login of a Player is handled: profile is set
RegistryLogin ==
    /\ \E i \in DOMAIN rConns :
         /\ rConns[i].player
         /\ rConns[i].state = "open"
         /\ ~rConns[i].logged
         /\ rConns' = [rConns EXCEPT ![i].logged = TRUE]
    /\ UNCHANGED <<rOthers, rRev, rRegistry, rEvents, rKicked, rThrown>>

\* a connection's "disconnect" is delivered: the peer left, or the
\* notification of an earlier disconnect() arrives.  The Player's listener
\* calls server.onDisconnect(this)
RegistryDisconnect ==
    /\ \E i \in DOMAIN rConns :
         /\ rConns[i].state # "closed"
         /\ rConns' = [rConns EXCEPT ![i].state = "closed"]
         /\ IF rConns[i].player
            THEN LET done == OnDisconnect(rRev, i, rConns[i].logged, rRegistry, rEvents)
                 IN  /\ rRegistry' = done.registry
                     /\ rEvents' = done.events
                     /\ rThrown' = rThrown + done.threw
            ELSE UNCHANGED <<rRegistry, rEvents, rThrown>>
    /\ UNCHANGED <<rOthers, rRev, rKicked>>

RNext ==
    \/ RegistryConnectKeeps
    \/ RegistryConnectReplaces
    \/ RegistryLogin
    \/ RegistryDisconnect

SpecRegistry == RInit /\ [][RNext]_vars


(***************************************************************************)
(* Worker: WorkerClient.connect() on the main thread and the message       *)
(* handler of the worker thread, with the two message channels between     *)
(* them.  mInner is the state of client.connect() in the worker.           *)
(***************************************************************************)
\* the events of the inner Client the worker listens to, and "connect",
\* which it leaves alone
ForwardedEvents == {"session", "msa", "disconnect", "error"}

InnerEvents == ForwardedEvents \cup {"connect", "packet"}

MInit ==
    /\ ZIdle
    /\ CIdle
    /\ PIdle
    /\ BIdle
    /\ DIdle
    /\ UIdle
    /\ AIdle
    /\ EIdle
    /\ WIdle
    /\ KIdle
    /\ RIdle
    /\ mPromise = "none"
    /\ mSettles = 0
    /\ mEmitted = <<>>
    /\ mToWorker = <<>>
    /\ mToMain = <<>>
    /\ mInner = "none"
    /\ mInnerEvents = 0

\* resolve or reject of the promise of connect(): only the first call settles
Settle(promise, how) == IF promise = "pending" THEN how ELSE promise

\* what the worker posts for an event of the inner Client
Posted(event) ==
    IF event \in ForwardedEvents THEN << [type |-> "event", event |-> event] >>
    ELSE IF event = "packet" THEN << [type |-> "packet", event |-> "-"] >>
    ELSE <<>>

\* WorkerClient.connect(): the worker is started, the handlers are
\* registered and "connect" is posted
WorkerClientConnect ==
    /\ mPromise = "none"
    /\ mPromise' = "pending"
    /\ mToWorker' = Append(mToWorker, [type |-> "connect"])
    /\ UNCHANGED <<mOthers, mSettles, mEmitted, mToMain, mInner, mInnerEvents>>

\* the worker handles "connect": new Client, its listeners, client.connect()
WorkerConnect ==
    /\ mToWorker # <<>>
    /\ Head(mToWorker).type = "connect"
    /\ mToWorker' = Tail(mToWorker)
    /\ mInner' = "connecting"
    /\ UNCHANGED <<mOthers, mPromise, mSettles, mEmitted, mToMain, mInnerEvents>>

\* the inner Client emits an event
WorkerInnerEvent ==
    /\ mInner \in {"connecting", "resolved"}
    /\ mInnerEvents < MaxInnerEvents
    /\ mInnerEvents' = mInnerEvents + 1
    /\ \E event \in InnerEvents \ {"connect"} :
         mToMain' = mToMain \o Posted(event)
    /\ UNCHANGED <<mOthers, mPromise, mSettles, mEmitted, mToWorker, mInner>>

\* client.connect() resolves: the inner Client has emitted "connect"; the
\* worker posts "connected"
WorkerConnectResolves ==
    /\ mInner = "connecting"
    /\ mInner' = "resolved"
    /\ mToMain' = mToMain \o Posted("connect")
                     \o << [type |-> "connected", event |-> "-"] >>
    /\ UNCHANGED <<mOthers, mPromise, mSettles, mEmitted, mToWorker, mInnerEvents>>

\* client.connect() rejects: the catch posts an "error" event
WorkerConnectFails ==
    /\ mInner = "connecting"
    /\ mInner' = "rejected"
    /\ mToMain' = Append(mToMain, [type |-> "event", event |-> "error"])
    /\ UNCHANGED <<mOthers, mPromise, mSettles, mEmitted, mToWorker, mInnerEvents>>

\* the main thread handles a message of the worker
WorkerClientMessage ==
    /\ mToMain # <<>>
    /\ mToMain' = Tail(mToMain)
    /\ LET msg == Head(mToMain)
       IN  IF msg.type = "connected"
           THEN /\ mEmitted' = Append(mEmitted, "connect")
                /\ mPromise' = Settle(mPromise, "resolved")
                /\ mSettles' = IF mPromise = "pending" THEN mSettles + 1 ELSE mSettles
           ELSE IF msg.type = "event"
           THEN /\ mEmitted' = IF msg.event = "connect" THEN mEmitted
                               ELSE Append(mEmitted, msg.event)
                /\ UNCHANGED <<mPromise, mSettles>>
           ELSE /\ mEmitted' = Append(mEmitted, "packet")
                /\ UNCHANGED <<mPromise, mSettles>>
    /\ UNCHANGED <<mOthers, mToWorker, mInner, mInnerEvents>>

MNext ==
    \/ WorkerClientConnect
    \/ WorkerConnect
    \/ WorkerInnerEvent
    \/ WorkerConnectResolves
    \/ WorkerConnectFails
    \/ WorkerClientMessage

SpecWorker == MInit /\ [][MNext]_vars

(***************************************************************************)
(* SpecCompressor: compress then decompress one packet, for every          *)
(* combination of the session's flags.                                     *)
(***************************************************************************)
\* packet bodies: a packet id followed by body bytes
PacketIds == {4, 9}
Bodies ==
    { [i \in 1..n |-> IF i = 1 THEN id ELSE 7] : n \in 1..MaxBody, id \in PacketIds }

Sessions ==
    [enc : BOOLEAN, comp : BOOLEAN, thr : 0..MaxThreshold,
     method : CompressionMethod, sendCtr : {0}, recvCtr : {0}]

ZInit ==
    /\ zPc = "input"
    /\ zIn \in [s : Sessions, body : Bodies]
    /\ zOut = NoResult
    /\ zBack = NoPackets
    /\ CIdle
    /\ PIdle
    /\ BIdle
    /\ DIdle
    /\ UIdle
    /\ AIdle
    /\ EIdle
    /\ WIdle
    /\ KIdle
    /\ RIdle
    /\ MIdle

DoCompress ==
    /\ zPc = "input"
    /\ zOut' = Compress(zIn.body, zIn.s)
    /\ zPc' = IF zOut'.ok THEN "compressed" ELSE "threw"
    /\ UNCHANGED <<zIn, zBack, zOthers>>

DoDecompress ==
    /\ zPc = "compressed"
    /\ zBack' = Decompress(zOut.buf, zIn.s)
    /\ zPc' = "decompressed"
    /\ UNCHANGED <<zIn, zOut, zOthers>>

ZNext == DoCompress \/ DoDecompress

SpecCompressor == ZInit /\ [][ZNext]_vars

(***************************************************************************)
(* Cipher: the encryptor of a sender and the encryptor of a receiver made  *)
(* from the same key, as compress and decompress use them.  wWire holds    *)
(* what the sender sealed; the receiver is handed any of it, in any order  *)
(* and any number of times.                                                *)
(***************************************************************************)
\* the session compress sees on the sender
Sealing(ctr) ==
    [enc |-> TRUE, comp |-> TRUE, thr |-> 0, method |-> Zlib,
     sendCtr |-> ctr, recvCtr |-> 0]

\* decompress up to decryptPacket: the leader is checked and stripped, the
\* rest is handed to the encryptor
Decrypted(buffer, ctr) ==
    IF buffer = <<>> \/ buffer[1] # Leader THEN Throw
    ELSE DecryptPacket(Tail(buffer), ctr)

WInit ==
    /\ ZIdle
    /\ CIdle
    /\ PIdle
    /\ BIdle
    /\ DIdle
    /\ UIdle
    /\ AIdle
    /\ EIdle
    /\ KIdle
    /\ RIdle
    /\ MIdle
    /\ wSendCtr = 0
    /\ wRecvCtr = 0
    /\ wWire = <<>>
    /\ wTried = <<>>

\* compress with encryption on: encryptPacket(framed), which counts
CipherSeal ==
    /\ Len(wWire) < MaxMessages
    /\ \E body \in Bodies :
         LET sealed == Compress(body, Sealing(wSendCtr))
         IN  wWire' = Append(wWire, [framed |-> Frame(body), buf |-> sealed.buf,
                                     ctr |-> wSendCtr])
    /\ wSendCtr' = wSendCtr + 1
    /\ UNCHANGED <<wOthers, wRecvCtr, wTried>>

\* decompress with encryption on: decryptPacket, which counts when the
\* checksum holds
CipherOpen ==
    /\ Len(wTried) < MaxOpens
    /\ \E i \in DOMAIN wWire :
         LET opened == Decrypted(wWire[i].buf, wRecvCtr)
         IN  /\ wTried' = Append(wTried, [idx |-> i, recv |-> wRecvCtr,
                                          ok |-> opened.ok, buf |-> opened.buf])
             /\ wRecvCtr' = IF opened.ok THEN wRecvCtr + 1 ELSE wRecvCtr
    /\ UNCHANGED <<wOthers, wSendCtr, wWire>>

WNext ==
    \/ CipherSeal
    \/ CipherOpen

SpecCipher == WInit /\ [][WNext]_vars

(***************************************************************************)
(* Claims about PacketCompressor (SpecCompressor).                         *)
(***************************************************************************)
zFramed == Frame(zIn.body)
zProduced == zPc \in {"compressed", "decompressed"}
IsDeflated(out) == out.ok /\ Len(out.buf) >= 3 /\ out.buf[3] = ZMark

\* C6: every buffer compress produces begins with 0xFE; with encryption off
\* and compression enabled its second byte is one of 0x00, 0x01, 0xFF,
\* whatever the negotiated method; with encryption on the byte after 0xFE is
\* the first ciphertext byte.
C6_OuterEnvelope ==
    zProduced =>
        /\ zOut.buf[1] = Leader
        /\ (~zIn.s.enc /\ zIn.s.comp) => zOut.buf[2] \in {0, 1, 255}
        /\ zIn.s.enc => zOut.buf[2] = CMark

\* C7: with encryption off, decompress(compress(p)) is exactly <<p>> for
\* every packet and every compression flag, threshold and method shared by
\* the two sides (whenever compress produced a buffer at all).
C7_RoundTrip ==
    (~zIn.s.enc /\ zPc = "decompressed") =>
        (zBack.ok /\ zBack.pkts = <<zIn.body>>)

\* C8 as stated: with encryption off, compress deflates if and only if
\* compression is enabled and the framed length is strictly greater than
\* the threshold; at or below it the method byte is "none" and the framed
\* bytes follow unchanged.
C8_DeflatesIffAboveThreshold ==
    (~zIn.s.enc /\ zProduced) =>
        /\ IsDeflated(zOut) <=> (zIn.s.comp /\ Len(zFramed) > zIn.s.thr)
        /\ (zIn.s.comp /\ Len(zFramed) <= zIn.s.thr)
               => zOut = Ok(<<Leader, None>> \o zFramed)

\* C8 amended: with encryption off, compress deflates only if compression
\* is enabled and the framed length is strictly greater than the threshold,
\* and always does so when the negotiated method is zlib; with compression
\* enabled and the length at or below the threshold the method byte is
\* "none" and the framed bytes follow unchanged.
C8_ThresholdPolicy ==
    (~zIn.s.enc /\ zPc # "input") =>
        /\ IsDeflated(zOut) => (zIn.s.comp /\ Len(zFramed) > zIn.s.thr)
        /\ (zIn.s.comp /\ Len(zFramed) > zIn.s.thr /\ zIn.s.method = Zlib)
               => zOut = Ok(<<Leader, Zlib, ZMark>> \o zFramed)
        /\ (zIn.s.comp /\ Len(zFramed) <= zIn.s.thr)
               => zOut = Ok(<<Leader, None>> \o zFramed)

\* a batch one byte over the threshold was deflated with zlib
C8_Witness ==
    /\ zPc = "compressed"
    /\ ~zIn.s.enc /\ zIn.s.comp /\ zIn.s.method = Zlib
    /\ Len(zFramed) = zIn.s.thr + 1
    /\ IsDeflated(zOut)

(***************************************************************************)
(* Claims about the Client (SpecClient).                                   *)
(***************************************************************************)
cLogins == { i \in DOMAIN cSent : cSent[i].pk = "LoginPacket" }
cEncrypted == { i \in DOMAIN cSent : cSent[i].enc }
cHandshakes == { i \in DOMAIN cSent : cSent[i].pk = "ClientToServerHandshakePacket" }

\* C3: the client sends no Login before it has received a NetworkSettings
\* packet, and sends at most one Login in a session, however many
\* NetworkSettings packets the server sends.
C3_LoginAfterNetworkSettings ==
    /\ cLogins # {} => cNetSetRecv >= 1
    /\ Cardinality(cLogins) <= 1

\* the Login went out and a second NetworkSettings packet was processed
C3_Witness ==
    /\ Cardinality(cLogins) = 1
    /\ cNetSetRecv >= 2

\* C4: the client sends nothing encrypted before it has received the
\* ServerToClientHandshake; once encryption is on, the first packet sent
\* is the ClientToServerHandshake, and it is encrypted.
C4_EncryptedAfterServerHandshake ==
    /\ cEncrypted # {} => cS2CRecv >= 1
    /\ \A i \in cEncrypted :
         (\A j \in 1..(i - 1) : ~cSent[j].enc)
             => cSent[i].pk = "ClientToServerHandshakePacket"
    /\ cHandshakes \subseteq cEncrypted
    /\ cEnc => cHandshakes # {}

\* plaintext packets, then the encrypted handshake, then another encrypted
\* packet
C4_Witness ==
    \E i \in cHandshakes :
        /\ i > 1
        /\ \A j \in 1..(i - 1) : ~cSent[j].enc
        /\ i < Len(cSent)
        /\ cSent[Len(cSent)].enc

\* C9: once a received batch fails to decrypt or fails its integrity check
\* the session is over: the client is Disconnected and no later batch is
\* processed.
C9_DecryptFailureEndsSession ==
    cDecryptFailed => (cStatus = "Disconnected" /\ ~cAfterFail)

\* C10: disconnect() has its effect once: however often it is called, and
\* whether or not RakNet closes by itself, RakNet is told to disconnect at
\* most once and the teardown runs at most once.
C10_DisconnectIdempotent ==
    /\ cRakNotified <= 1
    /\ cCleanups <= 1

\* C11: once the first disconnect() call of the client (src/client/client.ts)
\* has returned, the status is Disconnected, no encryptor is live and the
\* encryption flag is off, RakNet has been told to disconnect, and no later
\* send() or queue() hands a frame to RakNet.
C11_FirstDisconnectTearsDown ==
    /\ []((cRev = "client.ts" /\ cDisconnectReturned) =>
            /\ cStatus = "Disconnected"
            /\ cEncryptor # "live"
            /\ ~cEnc
            /\ cRakNotified >= 1)
    /\ [][(cRev = "client.ts" /\ cDisconnectReturned) => cSent' = cSent]_vars

\* the packets with which a client answers the server after login
cAnswers ==
    {"ResourcePackClientResponsePacket", "RequestChunkRadiusPacket",
     "SetLocalPlayerAsInitializedPacket", "ServerboundLoadingScreenPacket"}

\* C19: a client of src/client/client.ts with cancelPastLogin set (the
\* upstream session of a bridge) never hands a ResourcePackClientResponse, a
\* RequestChunkRadius, a SetLocalPlayerAsInitialized or the end-loading-screen
\* packet to RakNet, whatever the server sends.
C19_UpstreamNeverAnswers ==
    (cRev = "client.ts" /\ cCancelPastLogin) =>
        \A k \in 1..Len(cSent) : cSent[k].pk \notin cAnswers

\* the server has sent ResourcePacksInfo, StartGame and PlayStatus
\* PlayerSpawn to such a client, and each reached its handler
C19_Witness ==
    /\ cRev = "client.ts"
    /\ cCancelPastLogin
    /\ cStatus = "Connecting"
    /\ "ResourcePacksInfoPacket" \notin cOn
    /\ cStartGame
    /\ cSpawnRecv

bDown == { k \in DOMAIN bSent : bSent[k].to = "down" }

bIsClientbound(i, name) ==
    bRecv[i].dir = "clientbound" /\ bRecv[i].bytes.name = name

\* arrivals that are clientbound LevelChunks received before any StartGame
bEarlyChunks ==
    { i \in DOMAIN bRecv :
        /\ bIsClientbound(i, "LevelChunkPacket")
        /\ \A j \in 1..(i - 1) : ~bIsClientbound(j, "StartGamePacket") }

bStartGameSent == { k \in bDown : bSent[k].sent.name = "StartGamePacket" }

\* C1: every clientbound LevelChunk received before the first StartGame is
\* sent to the downstream player after the StartGame packet was sent to it,
\* exactly once, and in the order the chunks arrived.
C1_ChunksAfterStartGame ==
    /\ \A k \in bDown :
         bSent[k].of \in bEarlyChunks => \E g \in bStartGameSent : g < k
    /\ \A i \in bEarlyChunks :
         Cardinality({ k \in bDown : bSent[k].of = i }) <= 1
    /\ \A k1, k2 \in bDown :
         (k1 < k2 /\ bSent[k1].of \in bEarlyChunks /\ bSent[k2].of \in bEarlyChunks)
             => bSent[k1].of < bSent[k2].of
    /\ bStartGameSent # {} =>
         \A i \in bEarlyChunks : \E k \in bDown : bSent[k].of = i

\* C2: whenever the bridge hands bytes to send() for a received packet
\* whose event has no listener, they are exactly the bytes it received.
C2_UnlistenedBytesUnchanged ==
    \A k \in DOMAIN bSent :
        (bSent[k].of > 0 /\ ~bSent[k].listened)
            => bSent[k].sent = bRecv[bSent[k].of].bytes

\* the sends the bridge made for arrival i
bSentFor(i) == {k \in 1..Len(bSent) : bSent[k].of = i}

\* the listener invocations made by processPacketCommon
bLive == {k \in 1..Len(bOffered) : bOffered[k].by = "processPacketCommon"}

\* C14: a listener invoked by processPacketCommon is handed the signal
\* {cancelled: false, modified: false}, and when it sets cancelled nothing is
\* sent to the other side for that packet.
C14_CancelDrops ==
    \A k \in bLive :
        /\ bOffered[k].signal = "eventStatus"
        /\ bOffered[k].outcome = "cancel" => bSentFor(bOffered[k].of) = {}

\* C15: Bridge.processPacketCommon of src/bridge/bridge.ts forwards an
\* intercepted packet that was not cancelled as the serialization of the
\* record the listener left if the listener set modified or the bridge
\* cleared the binary field, and as the bytes received otherwise; what a
\* listener changes without setting modified does not reach the peer.
C15_ModifiedOrOriginal ==
    bRev = "bridge.ts" =>
        \A k \in bLive :
            LET o == bOffered[k]
                received == bRecv[o.of].bytes
                left == [name |-> received.name,
                         val |-> IF Mutates(o.outcome) THEN "m" ELSE received.val]
            IN  o.outcome # "cancel" =>
                    /\ bSentFor(o.of) # {}
                    /\ \A j \in bSentFor(o.of) :
                          /\ bSent[j].sent =
                                IF o.outcome = "modify" \/ o.binary
                                THEN Serialize(left) ELSE received
                          /\ o.outcome = "mutate" => bSent[j].sent.val = received.val

\* the arrivals held in the deferred chunk queue
bHeld == {bQueue[k].of : k \in 1..Len(bQueue)}

\* C17: with Bridge.processPacketCommon of src/bridge/bridge.ts, while
\* postStartGame is false no LevelChunk has been sent to the downstream
\* player and every clientbound LevelChunk received is in the queue, the
\* ones that do not deserialize included.
C17_ChunksHeldUntilStartGame ==
    (bRev = "bridge.ts" /\ ~bPostStartGame) =>
        /\ \A k \in 1..Len(bSent) :
              ~(bSent[k].to = "down" /\ bSent[k].sent.name = "LevelChunkPacket")
        /\ \A i \in 1..Len(bRecv) :
              (bRecv[i].dir = "clientbound" /\ bRecv[i].bytes.name = "LevelChunkPacket")
                  => i \in bHeld

\* C18: the replay of the queue on the first StartGame treats a chunk as
\* processPacketCommon of src/bridge/bridge.ts treats a live packet: without
\* a listener the bytes received are sent, a listener is handed the signal
\* {cancelled: false, modified: false}, and a chunk whose listener sets
\* cancelled is not sent.
C18_ReplayLikeLive ==
    bRev = "bridge.ts" =>
        /\ \A k \in 1..Len(bSent) :
              (bSent[k].of \in bHeld /\ ~bSent[k].listened)
                  => bSent[k].sent = bRecv[bSent[k].of].bytes
        /\ \A k \in 1..Len(bOffered) :
              bOffered[k].by = "replay" =>
                  /\ bOffered[k].signal = "eventStatus"
                  /\ bOffered[k].outcome = "cancel" => bSentFor(bOffered[k].of) = {}

(***************************************************************************)
(* Claims about the dispatchers (SpecDispatch).                            *)
(***************************************************************************)
\* C12: for a sub-packet that has a specific-name listener and a generic
\* "packet" listener, the generic listener is never invoked before the
\* specific one, on the client and on each Player.
C12_SpecificBeforeGeneric ==
    \A i, j \in 1..Len(dLog) :
        (i < j /\ dLog[i].sub = dLog[j].sub /\ dLog[i].listener = "packet")
            => dLog[j].listener = "packet"

\* the sub-packets of the last batch that a listener is waiting for
dDispatchable ==
    {i \in 1..Len(dBatch) :
        /\ dBatch[i].name # "unknown"
        /\ dBatch[i].ok
        /\ (dBatch[i].name \in dOn \/ "packet" \in dOn)}

dDispatched == {dLog[k].sub : k \in 1..Len(dLog)}

\* C13: on the client (src/client/client.ts) and on the Player whose
\* processPacket takes the batch (src/server/player.ts), a sub-packet with an
\* unknown id, one that does not deserialize and one whose listener throws
\* are dropped alone: every sub-packet of the batch that a listener is waiting
\* for is dispatched, and no exception leaves handle().
C13_FailureIsolation ==
    dRev \in {"client.ts", "player.ts(batch)"} =>
        /\ dDispatchable \subseteq dDispatched
        /\ ~dEscaped

(***************************************************************************)
(* Claims about a bridge pair while it logs in (SpecPair).                 *)
(***************************************************************************)
uCacheStatusSent(log) ==
    {k \in 1..Len(log) : log[k].pk = "ClientCacheStatusPacket"}

\* C16: no ClientCacheStatus with enabled = true is sent on by the bridge,
\* to either side, and once the bridge has intercepted a ClientCacheStatus
\* of the downstream client the server has been sent one with
\* enabled = false.
C16_CacheStatusForcedOff ==
    /\ \A k \in uCacheStatusSent(uUp) : uUp[k].val = "disabled"
    /\ \A k \in uCacheStatusSent(uDown) : uDown[k].val = "disabled"
    /\ uCcsDropped > 0 => uCacheStatusSent(uUp) # {}

\* C20: the bridge has constructed at most one Client for the Player, and
\* had accepted the Player's Login when it constructed it.
C20_OneUpstreamAfterLogin ==
    /\ Len(uClients) <= 1
    /\ \A i \in 1..Len(uClients) : uClients[i].login = "accepted"

\* C21: for a Player whose Login was accepted, once its connection has
\* died every Client the bridge made for it has been sent a Disconnect, and
\* once a Client's connection has died the Player has been sent a
\* Disconnect.
C21_PairAtomic ==
    uLogin = "accepted" =>
        /\ ~uAlive =>
              \A i \in 1..Len(uClients) :
                  uClients[i].closed
                      \/ \E k \in 1..Len(uUp) :
                            uUp[k].client = i /\ uUp[k].pk = "DisconnectPacket"
        /\ (uAlive /\ \E i \in 1..Len(uClients) : uClients[i].closed) =>
              \E k \in 1..Len(uDown) : uDown[k].pk = "DisconnectPacket"

\* the packets forwarded upstream for the downstream client
RECURSIVE uForwarded(_)
uForwarded(log) ==
    IF log = <<>> THEN <<>>
    ELSE (IF Head(log).by = "forward" THEN <<Head(log).pk>> ELSE <<>>)
            \o uForwarded(Tail(log))

\* C22: without user listeners and while both connections live, the
\* packets forwarded to the real server are the packets the downstream
\* client sent after its handshake, in order and with none lost, those sent
\* before the upstream Client got PlayStatus LoginSuccess included.
C22_TransparentPassthrough ==
    (uAlive /\ \A i \in 1..Len(uClients) : ~uClients[i].closed) =>
        uForwarded(uUp) = uFromD


pSentNames == { pSent[i].pk : i \in DOMAIN pSent }

\* C23: a handshake packet handled in the wrong state is answered with a
\* Disconnect and does not advance the handshake: while
\* RequestNetworkSettings is unhandled there is no ServerToClientHandshake
\* and no encryption, while Login is unhandled there is no PlayStatus, and a
\* Login handled before RequestNetworkSettings or a ClientToServerHandshake
\* handled before Login has a Disconnect sent.
C23_WrongStateIsFatal ==
    /\ "RequestNetworkSettingsPacket" \in pOn =>
          /\ ~pEnc
          /\ "ServerToClientHandshakePacket" \notin pSentNames
    /\ "LoginPacket" \in pOn => "PlayStatusPacket" \notin pSentNames
    /\ ("RequestNetworkSettingsPacket" \in pOn /\ "LoginPacket" \notin pOn
            /\ pStatus # "off") =>
          "DisconnectPacket" \in pSentNames
    /\ ("LoginPacket" \in pOn /\ "ClientToServerHandshakePacket" \notin pOn
            /\ pStatus # "off") =>
          "DisconnectPacket" \in pSentNames


\* C24: once the Login handler has caught a failure of decodeLoginJWT, a
\* Disconnect has been sent, no ServerToClientHandshake has been sent,
\* encryption is off, and the connection is closed: the session handles no
\* further batch and sends nothing more.
C24_BadLoginDisconnects ==
    /\ [](pLoginPc = "caught" =>
            /\ "DisconnectPacket" \in pSentNames
            /\ "ServerToClientHandshakePacket" \notin pSentNames
            /\ ~pEnc)
    /\ [][pLoginPc = "caught" => (pSent' = pSent /\ pOn' = pOn /\ pEnc' = pEnc)]_vars


\* the chain rule of the claim: the first token checks under its own x5u,
\* every other token under the identityPublicKey claim of the token before
aChained(chain) ==
    \A i \in 1..Len(chain) :
        chain[i].signedBy =
            IF i = 1 THEN chain[1].x5u ELSE chain[i - 1].identityPublicKey

\* C25: a chain readAuth accepts has every token verified under the
\* identityPublicKey of the token before it (the first under its own x5u),
\* and the key returned is the identityPublicKey of the last token (null
\* when that token has none).
C25_ChainVerification ==
    aPc = "returned" =>
        /\ aChained(aChain)
        /\ aReturned.key =
              IF aChain[Len(aChain)].identityPublicKey = "none" THEN "null"
              ELSE aChain[Len(aChain)].identityPublicKey

\* C26: the result readAuth returns says whether the chain is verified: it
\* is marked verified exactly when some token's x5u is the Mojang root.
C26_VerifiedIsReported ==
    aPc = "returned" =>
        /\ "verified" \in DOMAIN aReturned
        /\ aReturned.verified =
              (\E i \in 1..Len(aChain) : getX5U(aChain[i]) = PUBLIC_KEY)


cSentNames == { cSent[i].pk : i \in DOMAIN cSent }

\* the session is ready and the five packets of the login were delivered
cDelivered ==
    /\ cSessionReady
    /\ cNetSetRecv > 0
    /\ cS2CRecv > 0
    /\ cPc \in {"waitConnection", "resolved"}
    /\ "ResourcePacksInfoPacket" \notin cOn
    /\ cStartGame
    /\ cSpawnRecv

C28_AuthErrorSurfaces ==
    /\ [](cAuth = "threw" => cRak \notin {"connecting", "connected", "failed"})
    /\ ((cAuth = "threw" /\ cPc # "idle") ~> cPc = "rejected")


\* compress writes the method byte iff compression is enabled and encryption
\* is off
MethodByte(batch) == batch.comp /\ ~batch.enc

\* the server: NetworkSettings leaves without compression, every batch after
\* it with compression enabled
pSwitchOver ==
    \A i \in DOMAIN pSent :
        pSent[i].pk = "NetworkSettingsPacket" =>
            /\ ~pSent[i].comp
            /\ \A j \in DOMAIN pSent : j > i => pSent[j].comp

C30_RunToCompletion ==
    [][pInbound' # pInbound =>
          pLoginPc \notin {"decodeLoginJWT", "importPKCS8", "sign"}]_vars


\* C31: a session never has a second encryptor, and the counters of its
\* encryptor never go back.
C31_OneEncryptor ==
    /\ [](eEncryptors <= 1)
    /\ [][eEncryptors >= 1 => (eSendCtr' >= eSendCtr /\ eRecvCtr' >= eRecvCtr)]_vars

\* C32: key material is held only once encryption was enabled, and a
\* disconnected session holds none.
C32_KeysZeroized ==
    /\ eKeys # {} => eEncryptors >= 1
    /\ eStatus = "Disconnected" => eKeys = {}


wOpened == { k \in DOMAIN wTried : wTried[k].ok }

C34_KeyAgreement ==
    kStage = "done" =>
        /\ kClientKey = kPlayerKey
        /\ Len(kPlayerKey) = 32
        /\ kPlayerKey = Sha256(SALT_BUFFER \o CreateSharedSecret(kServer,
                            CreatePublicKey(kLogin[Len(kLogin)].identityPublicKey)))
        /\ kClientKey = Sha256(SALT_BUFFER \o CreateSharedSecret(kClient,
                            CreatePublicKey(kToken.x5u)))
        /\ kClientIv = kPlayerIv
        /\ kPlayerIv = SubSeq(kPlayerKey, 1, 16)

C34_Witness ==
    /\ kStage = "done"
    /\ kClient # kServer
    /\ ~kOffline
    /\ Len(kLogin) = 3


pLoginSuccess == { i \in DOMAIN pSent : pSent[i].pk = "PlayStatusPacket" }

\* C35: at most one PlayStatus LoginSuccess is sent in a session, each one
\* sent with encryption on (so after an accepted Login), and a
\* ClientToServerHandshake handled once encryption is on is answered with
\* one, whatever arrived before the Login.
C35_LoginSuccessOnce ==
    /\ [](/\ Cardinality(pLoginSuccess) <= 1
          /\ \A i \in pLoginSuccess : pSent[i].enc)
    /\ [][(PlayerClientToServerHandshake /\ pEnc) =>
              Len(pSent') = Len(pSent) + 1]_vars


\* the arrivals a listener of the user was offered
bOfferedOf == { bOffered[k].of : k \in 1..Len(bOffered) }

\* C36: the serialization cache changes nothing: every packet that arrives
\* with well-formed bytes while the user listens to its event, and is not
\* held in the chunk queue, is offered to the listener, also when the same
\* bytes arrived before.
C36_CacheTransparent ==
    \A i \in 1..Len(bRecv) :
        (/\ EventName(bRecv[i].dir, bRecv[i].bytes.name) \in bUserOn
         /\ bRecv[i].bytes.form # "malformed"
         /\ i \notin bHeld)
            => i \in bOfferedOf


rDisconnects(i) ==
    { k \in 1..Len(rEvents) : rEvents[k] = ServerEvent("disconnect", i) }

\* C37: once the connection of a registered Player has disconnected, at any
\* stage of its handshake, the key no longer maps to that Player and a
\* disconnect event was emitted for it; and a connection that arrives when
\* every earlier one has disconnected gets a Player and a playerConnect.
C37_RegistryFollowsConnections ==
    /\ \A i \in 1..Len(rConns) :
          (rConns[i].registered /\ rConns[i].state = "closed") =>
              /\ rRegistry # i
              /\ rDisconnects(i) # {}
    /\ \A i \in 1..Len(rConns) :
          rConns[i].alone =>
              /\ rConns[i].registered
              /\ ServerEvent("playerConnect", i) \in { rEvents[k] : k \in 1..Len(rEvents) }

\* C38: in the revision that replaces the Player of an address, the old
\* Player was sent a Disconnect, exactly one disconnect event was emitted for
\* it, and the key maps to the newest Player while its connection is open,
\* also once the old connection's notification was delivered.
C38_ReplaceOldPlayer ==
    rRev = "server.ts:94" =>
        /\ \A i \in rKicked :
              /\ rRegistry # i
              /\ Cardinality(rDisconnects(i)) = 1
        /\ (rConns # <<>> /\ rConns[Len(rConns)].state = "open") =>
              rRegistry = Len(rConns)


cRequests == { i \in DOMAIN cSent : cSent[i].pk = "RequestNetworkSettingsPacket" }

\* C39: the client sends at most one RequestNetworkSettings, only with the
\* session ready and RakNet connected; whatever the client has sent, the
\* first packet is the RequestNetworkSettings; and nothing is sent while the
\* session is not ready.
C39_RequestFirst ==
    /\ Cardinality(cRequests) <= 1
    /\ cRequests # {} => (cSessionReady /\ cRak \notin {"idle", "connecting", "failed"})
    /\ cSent # <<>> => cSent[1].pk = "RequestNetworkSettingsPacket"
    /\ ~cSessionReady => cSent = <<>>


mConnects == { k \in 1..Len(mEmitted) : mEmitted[k] = "connect" }

\* C40: the WorkerClient emits connect at most once and its promise settles
\* at most once; once every message of a successful inner connect was
\* handled, connect was emitted once and the promise is resolved; once every
\* message of a failed inner connect was handled, the promise is rejected.
C40_WorkerConnectSettles ==
    /\ Cardinality(mConnects) <= 1
    /\ mSettles <= 1
    /\ (mInner = "resolved" /\ mToMain = <<>>) =>
          (Cardinality(mConnects) = 1 /\ mPromise = "resolved")
    /\ (mInner = "rejected" /\ mToMain = <<>>) => mPromise = "rejected"

====
